---- MODULE Spec2Model ----
(***************************************************************************)
(* Signal-to-order pipeline of the 15m-VolumeTrade bot.                    *)
(*                                                                         *)
(*   producers : ChannelParser._handle_new_message, one coroutine per      *)
(*               inbound Telegram message                                  *)
(*   queue     : the asyncio.Queue built in BotApplication.__init__        *)
(*   consumer  : process_signals_queue -> open_position_with_signal        *)
(*   sizing    : PositionManager.calculate_position_size / split_tp_orders *)
(*                                                                         *)
(* Text is a sequence of one-character strings.  A Python float or Decimal *)
(* is the exact rational it denotes: a decimal literal with coefficient m  *)
(* and d decimal places is the record [m |-> m, d |-> d], of value         *)
(* m / 10^d.                                                               *)
(***************************************************************************)
EXTENDS Integers, Sequences, FiniteSets, TLC

\* ------------------------------------------------------------------ bounds

\* messages delivered by the transport during one run
MaxMessages == 3
\* message-handler coroutines alive at the same time
MaxHandlers == 2
\* largest total quantity handed to split_tp_orders by the function harness
MaxTotalQty == 12
\* largest number of take-profit prices handed to split_tp_orders
MaxTps == 4
\* largest number of active channels in the channel configuration
MaxChannels == 2
\* calls of BotApplication.stop() made after start() has returned
MaxStopCalls == 2

\* ------------------------------------------------------------------- text

UpperAlphabet ==
    <<"A", "B", "C", "D", "E", "F", "G", "H", "I", "J", "K", "L", "M",
      "N", "O", "P", "Q", "R", "S", "T", "U", "V", "W", "X", "Y", "Z">>
LowerAlphabet ==
    <<"a", "b", "c", "d", "e", "f", "g", "h", "i", "j", "k", "l", "m",
      "n", "o", "p", "q", "r", "s", "t", "u", "v", "w", "x", "y", "z">>

UpperChars == {UpperAlphabet[i] : i \in DOMAIN UpperAlphabet}
LowerChars == {LowerAlphabet[i] : i \in DOMAIN LowerAlphabet}

\* str.lower() on one character
LowerChar(c) ==
    IF c \in UpperChars
    THEN LowerAlphabet[CHOOSE i \in DOMAIN UpperAlphabet : UpperAlphabet[i] = c]
    ELSE c

\* a string left in the case it came in
NotLowered(s) == s

\* str.lower()
Lower(s) == [i \in 1..Len(s) |-> LowerChar(s[i])]

\* str.isupper(): at least one cased character and no lowercase one
IsUpper(s) ==
    /\ \E i \in 1..Len(s) : s[i] \in UpperChars
    /\ \A i \in 1..Len(s) : s[i] \notin LowerChars

\* str.endswith(suffix)
EndsWith(s, suffix) ==
    /\ Len(s) >= Len(suffix)
    /\ SubSeq(s, Len(s) - Len(suffix) + 1, Len(s)) = suffix

\* str.replace(old, new) for a one-character old
RECURSIVE Replace(_, _, _)
Replace(s, old, new) ==
    IF s = <<>> THEN <<>>
    ELSE (IF Head(s) = old THEN new ELSE <<Head(s)>>) \o Replace(Tail(s), old, new)

\* "x in s" for a one-character x
Contains(s, c) == \E i \in 1..Len(s) : s[i] = c

\* s[:-4]
DropLast4(s) == SubSeq(s, 1, Len(s) - 4)

\* the line feed, and the two square glyphs, each one character
NL == "\n"
RedSquare == "[red square]"
GreenSquare == "[green square]"

\* what str.strip() strips and the regular expressions' \s matches
Whitespace == {" ", NL}

DigitChars == <<"0", "1", "2", "3", "4", "5", "6", "7", "8", "9">>

\* the regular expressions' \d
IsDigit(c) == \E i \in DOMAIN DigitChars : DigitChars[i] = c

DigitValue(c) == (CHOOSE i \in DOMAIN DigitChars : DigitChars[i] = c) - 1

\* the least element of a non-empty set of positions
Min(S) == CHOOSE x \in S : \A y \in S : x <= y

\* where needle occurs in hay
Occurrences(needle, hay) ==
    {i \in 1..(Len(hay) - Len(needle) + 1) :
        SubSeq(hay, i, i + Len(needle) - 1) = needle}

\* "needle in hay"
IsSubstring(needle, hay) == Occurrences(needle, hay) # {}

RECURSIVE LStrip(_)
LStrip(s) ==
    IF s # <<>> /\ Head(s) \in Whitespace THEN LStrip(Tail(s)) ELSE s

RECURSIVE RStrip(_)
RStrip(s) ==
    IF s # <<>> /\ s[Len(s)] \in Whitespace
    THEN RStrip(SubSeq(s, 1, Len(s) - 1)) ELSE s

\* str.strip()
Strip(s) == RStrip(LStrip(s))

\* s.split('\n')[0]
FirstLine(s) ==
    LET feeds == {i \in 1..Len(s) : s[i] = NL}
    IN  IF feeds = {} THEN s ELSE SubSeq(s, 1, Min(feeds) - 1)

\* the last position of the run of digits that starts at i (i - 1: no digit)
RECURSIVE DigitsEnd(_, _)
DigitsEnd(s, i) ==
    IF i <= Len(s) /\ IsDigit(s[i]) THEN DigitsEnd(s, i + 1) ELSE i - 1

\* the last position of the run of [A-Z] that starts at i
RECURSIVE UpperEnd(_, _)
UpperEnd(s, i) ==
    IF i <= Len(s) /\ s[i] \in UpperChars THEN UpperEnd(s, i + 1) ELSE i - 1

\* \s* from position i: the first position that holds no whitespace
RECURSIVE SkipSpaces(_, _)
SkipSpaces(s, i) ==
    IF i <= Len(s) /\ s[i] \in Whitespace THEN SkipSpaces(s, i + 1) ELSE i

\* int() of a string of digits
RECURSIVE IntOfDigits(_)
IntOfDigits(ds) ==
    IF ds = <<>> THEN 0
    ELSE IntOfDigits(SubSeq(ds, 1, Len(ds) - 1)) * 10 + DigitValue(ds[Len(ds)])

RECURSIVE StripZeros(_)
StripZeros(ds) ==
    IF ds # <<>> /\ ds[Len(ds)] = "0"
    THEN StripZeros(SubSeq(ds, 1, Len(ds) - 1)) ELSE ds

\* float() of "whole", "whole." or "whole.frac": the number, written as
\* repr() writes it, with at least one decimal place and no trailing zero
FloatOfDigits(whole, frac) ==
    LET f == StripZeros(frac)
    IN  IF f = <<>> THEN [m |-> IntOfDigits(whole) * 10, d |-> 1]
        ELSE [m |-> IntOfDigits(whole \o f), d |-> Len(f)]

USDT == <<"U", "S", "D", "T">>
usdt == <<"u", "s", "d", "t">>

\* SymbolsCache.normalize_symbol, and XTClient._normalize_symbol (same body)
NormalizeSymbol(symbol) ==
    LET s1 == Replace(Replace(symbol, "/", <<"_">>), "-", <<"_">>)
        s2 == IF IsUpper(s1) /\ EndsWith(s1, USDT)
              THEN DropLast4(s1) \o <<"_">> \o USDT ELSE s1
        s3 == Lower(s2)
    IN  IF ~Contains(s3, "_") /\ EndsWith(s3, usdt)
        THEN DropLast4(s3) \o <<"_">> \o usdt ELSE s3

\* the attributes class XTClient defines
XTClientAttrs ==
    {"_normalize_symbol", "_extract_response", "set_leverage",
     "get_contract_size", "place_market_order", "place_reduce_limit_orders"}

\* attribute lookup on the class: the attribute, or AttributeError
XTClientHasAttr(name) == name \in XTClientAttrs

\* ---------------------------------------------------------------- numbers

RECURSIVE Pow10(_)
Pow10(n) == IF n = 0 THEN 1 ELSE 10 * Pow10(n - 1)

\* Decimal(str(n)) of an int: no decimal places
DecimalOfInt(n) == [m |-> n, d |-> 0]

\* Decimal(str(x)) of a float: the digits of its repr, which always shows at
\* least one decimal place ("1.0", "0.01"); a float is kept as that repr
DecimalOfFloat(x) == [m |-> x.m, d |-> x.d]

\* Decimal.quantize(step, rounding=ROUND_UP): as below, away from zero
QuantizeRoundUp(q, step) ==
    LET scale == Pow10(step.d)
        whole == q.num \div q.den
        rest  == q.num % q.den
        digits == (rest * scale) \div q.den
        exact  == (rest * scale) % q.den = 0
    IN  [m |-> whole * scale + digits + (IF exact THEN 0 ELSE 1), d |-> step.d]

\* Decimal.quantize(step, rounding=ROUND_DOWN) of the non-negative rational
\* q = num/den: q cut to the number of decimal places of step (quantize
\* takes the exponent of its argument, never its value)
QuantizeRoundDown(q, step) ==
    LET scale == Pow10(step.d)
        whole == q.num \div q.den
        rest  == q.num % q.den
    IN  [m |-> whole * scale + (rest * scale) \div q.den, d |-> step.d]

\* int(Decimal): truncation toward zero of a non-negative decimal
IntOfDecimal(x) == x.m \div Pow10(x.d)

\* PositionManager.calculate_position_size
CalculatePositionSize(config, entry_price, leverage, contract_size) ==
    LET \* volume = balance * (amount / 100) * leverage
        \* qty_decimal = volume / (entry_price * contract_size)
        qty_decimal ==
            [num |-> config.balance * config.amount * leverage
                     * Pow10(entry_price.d + contract_size.d),
             den |-> 100 * entry_price.m * contract_size.m]
        contract_size_decimal == DecimalOfFloat(contract_size)
        rounded_qty == QuantizeRoundDown(qty_decimal, contract_size_decimal)
    IN  IntOfDecimal(rounded_qty)

\* a split_tp_orders whose first share leaves room for num_tps further
\* shares instead of num_tps - 1
SplitTpOrdersOneShareTooMany(total_qty, tp_prices, contract_size) ==
    LET num_tps == Len(tp_prices)
        contract_size_decimal == DecimalOfFloat(contract_size)
        qty_per_tp_decimal ==
            [num |-> DecimalOfInt(total_qty).m, den |-> DecimalOfInt(num_tps).m]
        rounded_qty_per_tp ==
            QuantizeRoundDown(qty_per_tp_decimal, contract_size_decimal)
        first_qty ==
            [m |-> total_qty * Pow10(rounded_qty_per_tp.d)
                   - rounded_qty_per_tp.m * num_tps,
             d |-> rounded_qty_per_tp.d]
    IN  [i \in 1..num_tps |->
            [price |-> tp_prices[i],
             qty   |-> IF i = 1 THEN IntOfDecimal(first_qty)
                       ELSE IntOfDecimal(rounded_qty_per_tp)]]

\* sorted(tp_prices), for prices that differ from each other
SortedPrices(tp_prices) ==
    LET prices == {tp_prices[i] : i \in DOMAIN tp_prices}
        Less(a, b) == a.m * Pow10(b.d) < b.m * Pow10(a.d)
    IN  [i \in DOMAIN tp_prices |->
            CHOOSE p \in prices :
                Cardinality({q \in prices : Less(q, p)}) = i - 1]

\* for i, price in enumerate(tp_prices): the prices in the order given
EnumeratePrices(tp_prices) == tp_prices

\* PositionManager.split_tp_orders
SplitTpOrders(total_qty, tp_prices, contract_size) ==
    LET num_tps == Len(tp_prices)
        contract_size_decimal == DecimalOfFloat(contract_size)
        qty_per_tp_decimal ==
            [num |-> DecimalOfInt(total_qty).m, den |-> DecimalOfInt(num_tps).m]
        rounded_qty_per_tp ==
            QuantizeRoundDown(qty_per_tp_decimal, contract_size_decimal)
        first_qty ==
            [m |-> total_qty * Pow10(rounded_qty_per_tp.d)
                   - rounded_qty_per_tp.m * (num_tps - 1),
             d |-> rounded_qty_per_tp.d]
    IN  [i \in 1..num_tps |->
            [price |-> EnumeratePrices(tp_prices)[i],
             qty   |-> IF i = 1 THEN IntOfDecimal(first_qty)
                       ELSE IntOfDecimal(rounded_qty_per_tp)]]

\* --------------------------------------------------------------- messages

\* Optional[T]: None is the empty sequence, a value v is <<v>>
None == <<>>
Some(v) == <<v>>

\* a float literal with one decimal place: Float1(1000) is 100.0
Float1(m) == [m |-> m, d |-> 1]

\* "Leverage:"
KwLeverage ==
    <<"L", "e", "v", "e", "r", "a", "g", "e", ":">>
\* "Entry Targets:"
KwEntryTargets ==
    <<"E", "n", "t", "r", "y", " ", "T", "a", "r", "g", "e", "t", "s", ":">>
\* "Take-Profit Targets:"
KwTakeProfitTargets ==
    <<"T", "a", "k", "e", "-", "P", "r", "o", "f", "i", "t", " ", "T", "a",
      "r", "g", "e", "t", "s", ":">>
\* "Stop Targets:"
KwStopTargets ==
    <<"S", "t", "o", "p", " ", "T", "a", "r", "g", "e", "t", "s", ":">>

\* SignalValidator.REQUIRED_KEYWORDS
REQUIRED_KEYWORDS ==
    <<KwLeverage, KwEntryTargets, KwTakeProfitTargets, KwStopTargets>>

\* SignalValidator.is_signal; text is None or a string
IsSignal(text) ==
    IF text = None \/ text[1] = <<>> THEN FALSE
    ELSE LET text_lower == Lower(text[1])
         IN  \A k \in DOMAIN REQUIRED_KEYWORDS :
                IsSubstring(Lower(REQUIRED_KEYWORDS[k]), text_lower)

SlashUSDT == <<"/">> \o USDT

\* _parse_asset: re.search(r'([A-Z]+/USDT)', first_line)
ParseAsset(first_line) ==
    LET starts == {i \in 1..Len(first_line) :
                     /\ first_line[i] \in UpperChars
                     /\ LET e == UpperEnd(first_line, i)
                        IN  /\ e + Len(SlashUSDT) <= Len(first_line)
                            /\ SubSeq(first_line, e + 1, e + Len(SlashUSDT))
                                   = SlashUSDT}
    IN  IF starts = {} THEN None
        ELSE Some(SubSeq(first_line, Min(starts),
                         UpperEnd(first_line, Min(starts)) + Len(SlashUSDT)))

\* a _parse_direction that tests for long first
ParseDirectionLongFirst(first_line) ==
    LET first_line_lower == Lower(first_line)
    IN  IF \/ IsSubstring(<<"l", "o", "n", "g">>, first_line_lower)
           \/ Contains(first_line, GreenSquare)
        THEN Some("Long")
        ELSE IF \/ IsSubstring(<<"s", "h", "o", "r", "t">>, first_line_lower)
                \/ Contains(first_line, RedSquare)
        THEN Some("Short")
        ELSE None

\* _parse_direction: the short test comes first
ParseDirection(first_line) ==
    LET first_line_lower == Lower(first_line)
    IN  IF \/ IsSubstring(<<"s", "h", "o", "r", "t">>, first_line_lower)
           \/ Contains(first_line, RedSquare)
        THEN Some("Short")
        ELSE IF \/ IsSubstring(<<"l", "o", "n", "g">>, first_line_lower)
                \/ Contains(first_line, GreenSquare)
        THEN Some("Long")
        ELSE None

\* _parse_leverage: re.search(r'Leverage:.*?\((\d+)X\)', text, IGNORECASE);
\* "." matches no line feed
ParseLeverage(text) ==
    LET low == Lower(text)
        Opens(p) ==
            {q \in (p + Len(KwLeverage))..Len(text) :
                /\ text[q] = "("
                /\ \A r \in (p + Len(KwLeverage))..(q - 1) : text[r] # NL
                /\ LET j == DigitsEnd(text, q + 1)
                   IN  /\ j >= q + 1
                       /\ j + 2 <= Len(text)
                       /\ low[j + 1] = "x"
                       /\ text[j + 2] = ")"}
        starts == {p \in Occurrences(Lower(KwLeverage), low) : Opens(p) # {}}
    IN  IF starts = {} THEN None
        ELSE LET q == Min(Opens(Min(starts)))
             IN  Some(IntOfDigits(SubSeq(text, q + 1, DigitsEnd(text, q + 1))))

\* (\d+\.?\d*) tried at position i
NumberAt(s, i) ==
    LET j == DigitsEnd(s, i)
        dot == j >= i /\ j + 1 <= Len(s) /\ s[j + 1] = "."
        k == IF dot THEN DigitsEnd(s, j + 2) ELSE j
    IN  [ok |-> j >= i, last |-> k,
         value |-> FloatOfDigits(SubSeq(s, i, j),
                                 IF dot THEN SubSeq(s, j + 2, k) ELSE <<>>)]

\* _parse_entry and _parse_stop_loss:
\* re.search(marker + r'\s*(\d+\.?\d*)', text, IGNORECASE)
NumberAfter(marker, text) ==
    LET number(p) == NumberAt(text, SkipSpaces(text, p + Len(marker)))
        starts == {p \in Occurrences(Lower(marker), Lower(text)) : number(p).ok}
    IN  IF starts = {} THEN None ELSE Some(number(Min(starts)).value)

\* a findall that hands its matches back last first
RECURSIVE FindAllTargetsReversed(_, _)
FindAllTargetsReversed(s, i) ==
    IF i > Len(s) THEN <<>>
    ELSE LET j == DigitsEnd(s, i)
             paren == j >= i /\ j + 1 <= Len(s) /\ s[j + 1] = ")"
             number == NumberAt(s, SkipSpaces(s, j + 2))
         IN  IF paren /\ number.ok
             THEN FindAllTargetsReversed(s, number.last + 1)
                      \o <<number.value>>
             ELSE FindAllTargetsReversed(s, i + 1)

\* re.findall(r'\d+\)\s*(\d+\.?\d*)', s), scanning from position i
RECURSIVE FindAllTargets(_, _)
FindAllTargets(s, i) ==
    IF i > Len(s) THEN <<>>
    ELSE LET j == DigitsEnd(s, i)
             paren == j >= i /\ j + 1 <= Len(s) /\ s[j + 1] = ")"
             number == NumberAt(s, SkipSpaces(s, j + 2))
         IN  IF paren /\ number.ok
             THEN <<number.value>> \o FindAllTargets(s, number.last + 1)
             ELSE FindAllTargets(s, i + 1)

\* a _parse_take_profits whose section runs to the end of the text
ParseTakeProfitsToEnd(text) ==
    LET opens == Occurrences(Lower(KwTakeProfitTargets), Lower(text))
    IN  IF opens = {} THEN None
        ELSE LET tp_text == SubSeq(text, Min(opens) + Len(KwTakeProfitTargets),
                                   Len(text))
                 matches == FindAllTargets(tp_text, 1)
             IN  IF matches = <<>> THEN None ELSE Some(matches)

\* _parse_take_profits: the section is
\* re.search(r'Take-Profit Targets:(.*?)Stop Targets:', text,
\*           IGNORECASE | DOTALL)
ParseTakeProfits(text) ==
    LET low == Lower(text)
        opens == Occurrences(Lower(KwTakeProfitTargets), low)
        closes == IF opens = {} THEN {}
                  ELSE {q \in Occurrences(Lower(KwStopTargets), low) :
                           q >= Min(opens) + Len(KwTakeProfitTargets)}
    IN  IF closes = {} THEN None
        ELSE LET tp_text == SubSeq(text, Min(opens) + Len(KwTakeProfitTargets),
                                   Min(closes) - 1)
                 matches == FindAllTargets(tp_text, 1)
             IN  IF matches = <<>> THEN None ELSE Some(matches)

\* an except clause that lets AttributeError through
ParseCatchesIndexAndValueError(exc) == exc \in {"IndexError", "ValueError"}

\* SignalParser.parse: except (IndexError, ValueError, AttributeError)
ParseCatches(exc) == exc \in {"IndexError", "ValueError", "AttributeError"}

\* all([...]) with the list of take-profits left out
AllButTakeProfits(f) ==
    /\ f.asset # None /\ f.asset[1] # <<>>
    /\ f.direction # None /\ f.direction[1] # ""
    /\ f.leverage # None /\ f.leverage[1] # 0
    /\ f.entry # None /\ f.entry[1].m # 0
    /\ f.stop_loss # None /\ f.stop_loss[1].m # 0

\* a gate that asks "is not None" of every field
AllPresent(f) ==
    /\ f.asset # None
    /\ f.direction # None
    /\ f.leverage # None
    /\ f.entry # None
    /\ f.take_profits # None
    /\ f.stop_loss # None

\* all([asset, direction, leverage, entry, take_profits, stop_loss]):
\* None, "", 0, 0.0 and [] count as false
All(f) ==
    /\ f.asset # None /\ f.asset[1] # <<>>
    /\ f.direction # None /\ f.direction[1] # ""
    /\ f.leverage # None /\ f.leverage[1] # 0
    /\ f.entry # None /\ f.entry[1].m # 0
    /\ f.take_profits # None /\ f.take_profits[1] # <<>>
    /\ f.stop_loss # None /\ f.stop_loss[1].m # 0

\* the value a dataclass field holds: what was extracted; a missing value
\* is written as the empty value of the field's type
FieldOr(extracted, empty) == IF extracted = None THEN empty ELSE extracted[1]

\* SignalParser.parse; text is None or a string.  raised is the exception
\* that leaves parse ("": none), signal what parse returns.
ParseOutcome(text) ==
    IF text = None
    THEN \* text.strip() on None: AttributeError inside the try
         [raised |-> IF ParseCatches("AttributeError") THEN ""
                     ELSE "AttributeError",
          signal |-> None]
    ELSE LET first_line == FirstLine(Strip(text[1]))
             f == [asset |-> ParseAsset(first_line),
                   direction |-> ParseDirection(first_line),
                   leverage |-> ParseLeverage(text[1]),
                   entry |-> NumberAfter(KwEntryTargets, text[1]),
                   take_profits |-> ParseTakeProfits(text[1]),
                   stop_loss |-> NumberAfter(KwStopTargets, text[1])]
         IN  [raised |-> "",
              signal |->
                 IF ~All(f) THEN None
                 ELSE Some([asset |-> FieldOr(f.asset, <<>>),
                            direction |-> FieldOr(f.direction, ""),
                            leverage |-> FieldOr(f.leverage, 0),
                            entry |-> FieldOr(f.entry, [m |-> 0, d |-> 1]),
                            take_profits |-> FieldOr(f.take_profits, <<>>),
                            stop_loss |-> FieldOr(f.stop_loss,
                                                  [m |-> 0, d |-> 1])])]

\* what SignalParser.parse returns
Parse(text) == ParseOutcome(text).signal

\* ----------------------------------------------------- messages delivered

\* [green] Long B/USDT
\*  Leverage: Cross (5X)
\*  Entry Targets: 100.0
\*  Take-Profit Targets:
\*  1) 110.0
\*  2) 120.0
\*  Stop Targets: 90.0
TextB100Str ==
    <<GreenSquare, " ", "L", "o", "n", "g", " ", "B", "/", "U", "S", "D",
      "T", NL, "L", "e", "v", "e", "r", "a", "g", "e", ":", " ", "C", "r",
      "o", "s", "s", " ", "(", "5", "X", ")", NL, "E", "n", "t", "r", "y",
      " ", "T", "a", "r", "g", "e", "t", "s", ":", " ", "1", "0", "0", ".",
      "0", NL, "T", "a", "k", "e", "-", "P", "r", "o", "f", "i", "t", " ",
      "T", "a", "r", "g", "e", "t", "s", ":", NL, "1", ")", " ", "1", "1",
      "0", ".", "0", NL, "2", ")", " ", "1", "2", "0", ".", "0", NL, "S",
      "t", "o", "p", " ", "T", "a", "r", "g", "e", "t", "s", ":", " ", "9",
      "0", ".", "0">>
TextB100 == Some(TextB100Str)

\* [green] Long B/USDT
\*  Leverage: Cross (10X)
\*  Entry Targets: 100
\*  Take-Profit Targets:
\*  1) 115.0
\*  Stop Targets: 95.0
TextB100RepostStr ==
    <<GreenSquare, " ", "L", "o", "n", "g", " ", "B", "/", "U", "S", "D",
      "T", NL, "L", "e", "v", "e", "r", "a", "g", "e", ":", " ", "C", "r",
      "o", "s", "s", " ", "(", "1", "0", "X", ")", NL, "E", "n", "t", "r",
      "y", " ", "T", "a", "r", "g", "e", "t", "s", ":", " ", "1", "0", "0",
      NL, "T", "a", "k", "e", "-", "P", "r", "o", "f", "i", "t", " ", "T",
      "a", "r", "g", "e", "t", "s", ":", NL, "1", ")", " ", "1", "1", "5",
      ".", "0", NL, "S", "t", "o", "p", " ", "T", "a", "r", "g", "e", "t",
      "s", ":", " ", "9", "5", ".", "0">>
TextB100Repost == Some(TextB100RepostStr)

\* [red] Short B/USDT
\*  Leverage: Cross (10X)
\*  Entry Targets: 200.0
\*  Take-Profit Targets:
\*  1) 190.0
\*  2) 180.0
\*  3) 170.0
\*  Stop Targets: 210.0
TextB200Str ==
    <<RedSquare, " ", "S", "h", "o", "r", "t", " ", "B", "/", "U", "S", "D",
      "T", NL, "L", "e", "v", "e", "r", "a", "g", "e", ":", " ", "C", "r",
      "o", "s", "s", " ", "(", "1", "0", "X", ")", NL, "E", "n", "t", "r",
      "y", " ", "T", "a", "r", "g", "e", "t", "s", ":", " ", "2", "0", "0",
      ".", "0", NL, "T", "a", "k", "e", "-", "P", "r", "o", "f", "i", "t",
      " ", "T", "a", "r", "g", "e", "t", "s", ":", NL, "1", ")", " ", "1",
      "9", "0", ".", "0", NL, "2", ")", " ", "1", "8", "0", ".", "0", NL,
      "3", ")", " ", "1", "7", "0", ".", "0", NL, "S", "t", "o", "p", " ",
      "T", "a", "r", "g", "e", "t", "s", ":", " ", "2", "1", "0", ".", "0">>
TextB200 == Some(TextB200Str)

\* [green] Long X/USDT
\*  Leverage: Cross (5X)
\*  Entry Targets: 100.0
\*  Take-Profit Targets:
\*  1) 110.0
\*  Stop Targets: 90.0
TextX100Str ==
    <<GreenSquare, " ", "L", "o", "n", "g", " ", "X", "/", "U", "S", "D",
      "T", NL, "L", "e", "v", "e", "r", "a", "g", "e", ":", " ", "C", "r",
      "o", "s", "s", " ", "(", "5", "X", ")", NL, "E", "n", "t", "r", "y",
      " ", "T", "a", "r", "g", "e", "t", "s", ":", " ", "1", "0", "0", ".",
      "0", NL, "T", "a", "k", "e", "-", "P", "r", "o", "f", "i", "t", " ",
      "T", "a", "r", "g", "e", "t", "s", ":", NL, "1", ")", " ", "1", "1",
      "0", ".", "0", NL, "S", "t", "o", "p", " ", "T", "a", "r", "g", "e",
      "t", "s", ":", " ", "9", "0", ".", "0">>
TextX100 == Some(TextX100Str)

\* Leverage: is risky
TextNoiseStr ==
    <<"L", "e", "v", "e", "r", "a", "g", "e", ":", " ", "i", "s", " ", "r",
      "i", "s", "k", "y">>
TextNoise == Some(TextNoiseStr)

\* B/USDT
\*  Leverage: Cross (5X)
\*  Entry Targets: 100.0
\*  Take-Profit Targets:
\*  1) 110.0
\*  Stop Targets: 90.0
TextMalformedStr ==
    <<"B", "/", "U", "S", "D", "T", NL, "L", "e", "v", "e", "r", "a", "g",
      "e", ":", " ", "C", "r", "o", "s", "s", " ", "(", "5", "X", ")", NL,
      "E", "n", "t", "r", "y", " ", "T", "a", "r", "g", "e", "t", "s", ":",
      " ", "1", "0", "0", ".", "0", NL, "T", "a", "k", "e", "-", "P", "r",
      "o", "f", "i", "t", " ", "T", "a", "r", "g", "e", "t", "s", ":", NL,
      "1", ")", " ", "1", "1", "0", ".", "0", NL, "S", "t", "o", "p", " ",
      "T", "a", "r", "g", "e", "t", "s", ":", " ", "9", "0", ".", "0">>
TextMalformed == Some(TextMalformedStr)

\* [green] Long B/USDT
\*  Leverage: Cross (0X)
\*  Entry Targets: 100.0
\*  Take-Profit Targets:
\*  1) 110.0
\*  Stop Targets: 90.0
TextZeroStr ==
    <<GreenSquare, " ", "L", "o", "n", "g", " ", "B", "/", "U", "S", "D",
      "T", NL, "L", "e", "v", "e", "r", "a", "g", "e", ":", " ", "C", "r",
      "o", "s", "s", " ", "(", "0", "X", ")", NL, "E", "n", "t", "r", "y",
      " ", "T", "a", "r", "g", "e", "t", "s", ":", " ", "1", "0", "0", ".",
      "0", NL, "T", "a", "k", "e", "-", "P", "r", "o", "f", "i", "t", " ",
      "T", "a", "r", "g", "e", "t", "s", ":", NL, "1", ")", " ", "1", "1",
      "0", ".", "0", NL, "S", "t", "o", "p", " ", "T", "a", "r", "g", "e",
      "t", "s", ":", " ", "9", "0", ".", "0">>
TextZero == Some(TextZeroStr)

\* [green] Long B/USDT
\*  Leverage: Cross (5X)
\*  Entry Targets: 100.0
\*  Take-Profit Targets:
\*  Stop Targets: 90.0
TextNoTargetsStr ==
    <<GreenSquare, " ", "L", "o", "n", "g", " ", "B", "/", "U", "S", "D",
      "T", NL, "L", "e", "v", "e", "r", "a", "g", "e", ":", " ", "C", "r",
      "o", "s", "s", " ", "(", "5", "X", ")", NL, "E", "n", "t", "r", "y",
      " ", "T", "a", "r", "g", "e", "t", "s", ":", " ", "1", "0", "0", ".",
      "0", NL, "T", "a", "k", "e", "-", "P", "r", "o", "f", "i", "t", " ",
      "T", "a", "r", "g", "e", "t", "s", ":", NL, "S", "t", "o", "p", " ",
      "T", "a", "r", "g", "e", "t", "s", ":", " ", "9", "0", ".", "0">>
TextNoTargets == Some(TextNoTargetsStr)

\* event.message.text of the messages the channels carry; None is a
\* message without text
Messages ==
    {TextB100, TextB100Repost, TextB200, TextX100, TextNoise, TextMalformed,
     TextZero, TextNoTargets, None}

\* message_text = event.message.text or ""
MessageText(text) == IF text = None THEN Some(<<>>) ELSE text

\* what the validator and the parser make of each message
Handled ==
    [text \in Messages |->
        [is_signal |-> IsSignal(MessageText(text)),
         raised |-> ParseOutcome(MessageText(text)).raised,
         signal |-> Parse(MessageText(text))]]

\* the dedup key with the targets left in: reposts get through
SignalKeyWithTargets(signal) ==
    <<signal.asset, signal.direction, signal.entry, signal.take_profits>>

\* signal_key = (signal.asset, signal.direction, signal.entry)
SignalKey(signal) == <<signal.asset, signal.direction, signal.entry>>

\* ------------------------------------------------------------------ state

VARIABLES
    processed_signals,  \* ChannelParser._processed_signals
    lock,               \* ChannelParser._lock: 0 unlocked, else the holder
    signal_queue,       \* BotApplication.signal_queue
    hpc,                \* where each message handler coroutine stands
    hsig,               \* the signal a handler parsed
    delivered,          \* messages the transport has delivered so far
    decisions,          \* history: every dedup check, signal and verdict
    enqueued,           \* history: every signal put on the queue, in order
    symbols_cache,      \* SymbolsCache._cache: symbol -> contractSize
    xt_leverage,        \* the exchange: leverage now set for each symbol
    pc,                 \* where each consumer task stands
    cur,                \* the signal a consumer task dequeued
    loc,                \* open_position_with_signal's locals
    dequeued,           \* history: every signal taken off the queue
    finished,           \* history: how open_position_with_signal ended
    exchange_calls,     \* history: every request sent to the exchange
    app,                \* BotApplication, its tasks and the transport
    hlate,              \* history: the handler runs on a message that came
                        \* after stop()
    sz,                 \* the sizing functions applied to drawn arguments
    od,                 \* the order-placing methods run by one task
    px,                 \* the validator and the parser applied to a text
    cf,                 \* TradingConfig.from_env applied to an environment
    ns,                 \* normalize_symbol applied to spellings of a pair
    bs                  \* BotApplication.start run from its first statement

pipeVars ==
    <<processed_signals, lock, signal_queue, hpc, hsig, delivered, decisions,
      enqueued, symbols_cache, xt_leverage, pc, cur, loc, dequeued, finished,
      exchange_calls, app, hlate>>

harnessVars == <<sz, od, px, cf, ns, bs>>

vars == <<pipeVars, harnessVars>>

Handlers == 1..MaxHandlers

\* two consumers draining the one queue
TwoProcessorTasks == {"processor_task", "processor_task_2"}

\* the consumer tasks BotApplication.start creates
ProcessorTasks == {"processor_task"}

b_usdt == <<"b", "_", "u", "s", "d", "t">>

\* SymbolsCache.load: what the exchange lists with isOpenApi; contractSize
\* goes through float(), so "1" is kept as 1.0
LoadedSymbols == [symbol \in {b_usdt} |-> Float1(10)]

\* TradingConfig.from_env: BALANCE and AMOUNT of the deployment
EnvConfig == [balance |-> 1000, amount |-> 10]

NoLocals == [id |-> 0, position_size |-> 0, tp_orders |-> <<>>, i |-> 0,
             order_ids |-> <<>>]

SzIdle ==
    [on |-> FALSE, config |-> EnvConfig, entry_price |-> Float1(10),
     leverage |-> 1, contract_size |-> Float1(10), total_qty |-> 0,
     tp_prices |-> <<Float1(10)>>, position_size |-> None, orders |-> None,
     market |-> None, limits |-> None]

\* the validator and the parser are not being run on their own
PxIdle ==
    [on |-> FALSE, parts |-> <<>>, text |-> None, is_signal |-> None,
     outcome |-> None]

\* from_env is not being run on its own
CfIdle == [on |-> FALSE, env |-> <<>>, result |-> None]

NsIdle == [on |-> FALSE, pair |-> <<>>, out |-> <<>>, again |-> <<>>]

\* BotApplication and its ChannelParser as their constructors leave them
BsNew ==
    [on |-> FALSE, channels |-> 0, main |-> "connect", cancelled |-> "",
     client |-> FALSE, is_connected |-> FALSE, was_connected |-> FALSE,
     running |-> FALSE, channel_parser |-> FALSE, parser |-> "none",
     parser_running |-> FALSE, titles |-> <<>>,
     handler_registered |-> FALSE, ready_event |-> FALSE,
     stop_event |-> FALSE, shutdown_event |-> FALSE, processor |-> "none",
     raised |-> "", stop_calls |-> 0, stops |-> 0, disconnects |-> 0]

BsIdle == BsNew

\* the order-placing methods are not being run on their own
OdIdle ==
    [on |-> FALSE, client |-> "XTClient", pc |-> "idle", orders |-> <<>>,
     i |-> 0, order_ids |-> <<>>, calls |-> <<>>, cancel |-> FALSE]

\* BotApplication.start has reached its gather: parser_task waits on the
\* stop event with the handler registered, processor_task runs, the
\* transport is connected
AppStarted ==
    [running |-> TRUE, cancelled |-> FALSE, parser_task |-> "wait",
     parser_running |-> TRUE, stop_event |-> FALSE, is_connected |-> TRUE,
     shutdown_event |-> FALSE, main |-> "gather"]

InitPipeline ==
    /\ processed_signals = {}
    /\ lock = 0
    /\ signal_queue = <<>>
    /\ hpc = [h \in Handlers |-> "idle"]
    /\ hsig = [h \in Handlers |-> None]
    /\ delivered = 0
    /\ decisions = <<>>
    /\ enqueued = <<>>
    /\ symbols_cache = LoadedSymbols
    /\ xt_leverage \in [DOMAIN LoadedSymbols -> {5, 10}]
    /\ pc = [t \in ProcessorTasks |-> "get"]
    /\ cur = [t \in ProcessorTasks |-> None]
    /\ loc = [t \in ProcessorTasks |-> NoLocals]
    /\ dequeued = <<>>
    /\ finished = <<>>
    /\ exchange_calls = <<>>
    /\ app = AppStarted
    /\ hlate = [h \in Handlers |-> FALSE]

Init ==
    /\ InitPipeline
    /\ sz = SzIdle /\ od = OdIdle /\ px = PxIdle /\ cf = CfIdle /\ ns = NsIdle
    /\ bs = BsIdle

\* ------------------------------------------------------------- producers
\* Telethon runs one handler coroutine per message.  asyncio switches
\* coroutines only at an await; the handler is cut here at every statement
\* that reads or writes shared state, which allows every schedule asyncio
\* can produce (and more).

\* asyncio.Lock that never makes anybody wait
LockNeverHeld(l) == TRUE

\* asyncio.Lock.acquire returns only while nobody holds the lock
LockIsFree(l) == l = 0

\* a handler without its "if not signal: return"
GoesOnUnparsed(text) == Handled[text].is_signal

\* the handler gets past both of its early returns: the validator accepts
\* the text, and parse neither raises nor returns None
GoesOn(text) ==
    /\ Handled[text].is_signal
    /\ Handled[text].raised = ""
    /\ Handled[text].signal # None

\* _handle_new_message up to the lock: validate, parse, build the key
HandleNewMessage(h, text) ==
    /\ hpc[h] = "idle"
    /\ delivered < MaxMessages
    /\ app.is_connected
    /\ delivered' = delivered + 1
    /\ IF GoesOn(text)
       THEN /\ hsig' = [hsig EXCEPT ![h] = Handled[text].signal]
            /\ hpc' = [hpc EXCEPT ![h] = "lock"]
            /\ hlate' = [hlate EXCEPT ![h] = app.stop_event]
       ELSE \* not a signal, or parse returned None, or it raised and the
            \* handler's own "except Exception" logged it
            UNCHANGED <<hsig, hpc, hlate>>
    /\ UNCHANGED <<processed_signals, lock, signal_queue, decisions, enqueued,
                   symbols_cache, xt_leverage, pc, cur, loc, dequeued,
                   finished, exchange_calls, app, harnessVars>>

\* async with self._lock: entry
LockAcquire(h) ==
    /\ hpc[h] = "lock"
    /\ LockIsFree(lock)
    /\ lock' = h
    /\ hpc' = [hpc EXCEPT ![h] = "check"]
    /\ UNCHANGED <<processed_signals, signal_queue, hsig, delivered, decisions,
                   enqueued, symbols_cache, xt_leverage, pc, cur, loc,
                   dequeued, finished, exchange_calls,
                   app, hlate, harnessVars>>

\* if signal_key in self._processed_signals: return (leaving the lock)
CheckProcessed(h) ==
    /\ hpc[h] = "check"
    /\ LET signal_key == SignalKey(hsig[h][1])
           seen == signal_key \in processed_signals
       IN  /\ decisions' = Append(decisions, [signal |-> hsig[h][1],
                                              admitted |-> ~seen])
           /\ IF seen
              THEN /\ lock' = 0
                   /\ hpc' = [hpc EXCEPT ![h] = "idle"]
                   /\ hsig' = [hsig EXCEPT ![h] = None]
                   /\ hlate' = [hlate EXCEPT ![h] = FALSE]
              ELSE /\ hpc' = [hpc EXCEPT ![h] = "add"]
                   /\ UNCHANGED <<lock, hsig, hlate>>
    /\ UNCHANGED <<processed_signals, signal_queue, delivered, enqueued,
                   symbols_cache, xt_leverage, pc, cur, loc, dequeued,
                   finished, exchange_calls, app, harnessVars>>

\* self._processed_signals.add(signal_key), and the lock is left
\* a set that keeps only the newest key
SetAddEvicting(keys, key) == {key}

\* set.add(key)
SetAdd(keys, key) == keys \cup {key}

AddProcessed(h) ==
    /\ hpc[h] = "add"
    /\ processed_signals' = SetAdd(processed_signals, SignalKey(hsig[h][1]))
    /\ lock' = 0
    /\ hpc' = [hpc EXCEPT ![h] = "put"]
    /\ UNCHANGED <<signal_queue, hsig, delivered, decisions, enqueued,
                   symbols_cache, xt_leverage, pc, cur, loc, dequeued,
                   finished, exchange_calls,
                   app, hlate, harnessVars>>

\* a LifoQueue: put pushes on the front
QueuePutFront(queue, item) == <<item>> \o queue

\* asyncio.Queue.put on the unbounded queue: append on the right
QueuePut(queue, item) == Append(queue, item)

\* a get that hands out the newest item
QueueGetNewest(queue) == queue[Len(queue)]

\* asyncio.Queue.get: the leftmost item
QueueGet(queue) == Head(queue)

\* await self.signal_queue.put(signal)
PutSignal(h) ==
    /\ hpc[h] = "put"
    /\ signal_queue' = QueuePut(signal_queue, hsig[h][1])
    /\ enqueued' = Append(enqueued, hsig[h][1])
    /\ hpc' = [hpc EXCEPT ![h] = "idle"]
    /\ hsig' = [hsig EXCEPT ![h] = None]
    /\ hlate' = [hlate EXCEPT ![h] = FALSE]
    /\ UNCHANGED <<processed_signals, lock, delivered, decisions,
                   symbols_cache, xt_leverage, pc, cur, loc, dequeued,
                   finished, exchange_calls, app, harnessVars>>

\* -------------------------------------------------------------- consumer

\* signal = await signal_queue.get()
ConsumerGet(t) ==
    /\ pc[t] = "get"
    /\ signal_queue # <<>>
    /\ ~app.cancelled
    /\ cur' = [cur EXCEPT ![t] = Some(QueueGet(signal_queue))]
    /\ signal_queue' = Tail(signal_queue)
    /\ dequeued' = Append(dequeued, QueueGet(signal_queue))
    /\ loc' = [loc EXCEPT ![t] = [NoLocals EXCEPT !.id = Len(dequeued) + 1]]
    /\ pc' = [pc EXCEPT ![t] = "open"]
    /\ UNCHANGED <<processed_signals, lock, hpc, hsig, delivered, decisions,
                   enqueued, symbols_cache, xt_leverage, finished,
                   exchange_calls,
                   app, hlate, harnessVars>>

\* where a consumer task waits in an await: queue.get(), and the
\* asyncio.to_thread of set_leverage, place_market_order and
\* place_reduce_limit_orders
Awaits == {"get", "leverage", "market", "tp"}

\* SymbolsCache.is_tradeable
IsTradeable(symbol) == NormalizeSymbol(symbol) \in DOMAIN symbols_cache

\* SymbolsCache.get_contract_size (KeyError for a symbol not cached)
GetContractSize(symbol) == symbols_cache[NormalizeSymbol(symbol)]

\* a handler that lets everything but RuntimeError through
CatchesRuntimeErrorOnly(exc) == exc = "RuntimeError"

\* open_position_with_signal's "except Exception": every exception the body
\* can raise is one
CatchesException(exc) ==
    exc \in {"AttributeError", "RuntimeError", "KeyError", "Exception"}

\* a consumer that runs a failed signal again
FinishAndRetry(t, outcome) ==
    /\ finished' = Append(finished, [id |-> loc[t].id, signal |-> cur[t][1],
                                     outcome |-> outcome])
    /\ pc' = [pc EXCEPT ![t] = IF outcome = "error" THEN "open"
                               ELSE "task_done"]

\* open_position_with_signal returns
Finish(t, outcome) ==
    /\ finished' = Append(finished, [id |-> loc[t].id, signal |-> cur[t][1],
                                     outcome |-> outcome])
    /\ pc' = [pc EXCEPT ![t] = "task_done"]

\* an exception that takes the consumer task down with it
RaiseEndsTask(t, exc) ==
    /\ finished' = Append(finished, [id |-> loc[t].id, signal |-> cur[t][1],
                                     outcome |-> "escaped"])
    /\ pc' = [pc EXCEPT ![t] = "exited"]

\* An exception inside open_position_with_signal's try: logged and swallowed
\* there; one that got out would reach process_signals_queue's own
\* "except Exception", which logs it and loops, skipping task_done().
Raise(t, exc) ==
    IF CatchesException(exc)
    THEN Finish(t, "error")
    ELSE /\ finished' = Append(finished, [id |-> loc[t].id, signal |-> cur[t][1],
                                          outcome |-> "escaped"])
         /\ pc' = [pc EXCEPT ![t] = "get"]

\* what the exchange may answer to set_account_leverage
LeverageAnswers(symbol, leverage) ==
    (IF xt_leverage[symbol] = leverage THEN {"not_modified", "ok"} ELSE {"ok"})
        \cup {"invalid_symbol", "rejected", "exception"}

\* XTClient.set_leverage: rc == 0 returns; any other answer becomes an
\* exception, swallowed when its text holds "leverage not modified"
XTSetLeverage(answer) ==
    IF answer = "ok" \/ answer = "not_modified" THEN "return" ELSE "raise"

\* what the exchange may answer to send_order
OrderAnswers == {"ok", "rejected", "exception"}

Call(t, op, side, position_side, amount, price, result) ==
    [id |-> loc[t].id, op |-> op,
     symbol |-> NormalizeSymbol(Replace(cur[t][1].asset, "/", <<>>)),
     side |-> side, position_side |-> position_side, amount |-> amount,
     price |-> price, result |-> result]

\* open_position_with_signal, one arm per stretch between two awaits.  Its
\* first statement after the symbol is built looks up normalize_symbol on
\* class XTClient, which defines only _normalize_symbol: the lookup raises
\* AttributeError, and the arms after it describe code no run reaches.
OpenPositionWithSignal(t) ==
    /\ pc[t] \in {"open", "leverage", "market", "tp"}
    /\ pc[t] \in Awaits => ~app.cancelled
    /\ LET signal == cur[t][1]
           symbol == Replace(signal.asset, "/", <<>>)
           position_side == IF signal.direction = "Long" THEN "LONG" ELSE "SHORT"
       IN
       CASE pc[t] = "open" ->
            \* normalized_symbol = XTClient.normalize_symbol(symbol)
            IF ~XTClientHasAttr("normalize_symbol")
            THEN /\ Raise(t, "AttributeError")
                 /\ UNCHANGED <<loc, exchange_calls, xt_leverage>>
            ELSE IF ~IsTradeable(NormalizeSymbol(symbol))
            THEN /\ Finish(t, "not_tradeable")
                 /\ UNCHANGED <<loc, exchange_calls, xt_leverage>>
            ELSE \* await self.xt_client.set_leverage(symbol, signal.leverage)
                 /\ pc' = [pc EXCEPT ![t] = "leverage"]
                 /\ UNCHANGED <<loc, exchange_calls, xt_leverage, finished>>
         [] pc[t] = "leverage" ->
            \E answer \in LeverageAnswers(NormalizeSymbol(symbol), signal.leverage) :
               /\ exchange_calls' = Append(exchange_calls,
                      Call(t, "set_leverage", "", "BOTH", signal.leverage,
                           None, answer))
               /\ xt_leverage' =
                      IF answer = "ok"
                      THEN [xt_leverage EXCEPT ![NormalizeSymbol(symbol)] =
                                signal.leverage]
                      ELSE xt_leverage
               /\ IF XTSetLeverage(answer) = "return"
                  THEN \* sizing, then await place_market_order(...)
                       /\ loc' = [loc EXCEPT ![t].position_size =
                              CalculatePositionSize(EnvConfig, signal.entry,
                                  signal.leverage,
                                  GetContractSize(NormalizeSymbol(symbol)))]
                       /\ pc' = [pc EXCEPT ![t] = "market"]
                       /\ UNCHANGED finished
                  ELSE /\ IF answer = "invalid_symbol"
                          THEN Finish(t, "invalid_symbol")
                          ELSE Raise(t, IF answer = "exception"
                                        THEN "Exception" ELSE "RuntimeError")
                       /\ UNCHANGED loc
         [] pc[t] = "market" ->
            \E answer \in OrderAnswers :
               /\ exchange_calls' = Append(exchange_calls,
                      Call(t, "MARKET",
                           IF signal.direction = "Long" THEN "BUY" ELSE "SELL",
                           position_side, loc[t].position_size,
                           Some(signal.stop_loss), answer))
               /\ IF answer = "ok"
                  THEN \* split_tp_orders, then place_reduce_limit_orders
                       /\ loc' = [loc EXCEPT
                              ![t].tp_orders =
                                  SplitTpOrders(loc[t].position_size,
                                      signal.take_profits,
                                      GetContractSize(NormalizeSymbol(symbol))),
                              ![t].i = 1]
                       /\ pc' = [pc EXCEPT ![t] = "tp"]
                       /\ UNCHANGED finished
                  ELSE /\ Raise(t, IF answer = "exception"
                                   THEN "Exception" ELSE "RuntimeError")
                       /\ UNCHANGED loc
               /\ UNCHANGED xt_leverage
         [] pc[t] = "tp" ->
            \* XTClient.place_reduce_limit_orders: one send_order per order,
            \* a failed one logged and skipped
            \E answer \in OrderAnswers :
               LET order == loc[t].tp_orders[loc[t].i]
                   ids == IF answer = "ok"
                          THEN Append(loc[t].order_ids, Len(exchange_calls) + 1)
                          ELSE loc[t].order_ids
               IN  /\ exchange_calls' = Append(exchange_calls,
                          Call(t, "LIMIT",
                               IF position_side = "LONG" THEN "SELL" ELSE "BUY",
                               position_side, order.qty, Some(order.price),
                               answer))
                   /\ loc' = [loc EXCEPT ![t].order_ids = ids,
                                         ![t].i = loc[t].i + 1]
                   /\ IF loc[t].i < Len(loc[t].tp_orders)
                      THEN UNCHANGED <<pc, finished>>
                      ELSE Finish(t, "processed")
                   /\ UNCHANGED xt_leverage
    /\ UNCHANGED <<processed_signals, lock, signal_queue, hpc, hsig, delivered,
                   decisions, enqueued, symbols_cache, cur, dequeued,
                   app, hlate, harnessVars>>

\* signal_queue.task_done(), and round the loop
TaskDone(t) ==
    /\ pc[t] = "task_done"
    /\ pc' = [pc EXCEPT ![t] = "get"]
    /\ UNCHANGED <<processed_signals, lock, signal_queue, hpc, hsig, delivered,
                   decisions, enqueued, symbols_cache, xt_leverage, cur, loc,
                   dequeued, finished, exchange_calls,
                   app, hlate, harnessVars>>

\* ---------------------------------------------------------------- shutdown

\* The owning process cancels the application: the main task waits in
\* gather, whose cancel() calls cancel() on parser_task, on processor_task
\* and on the wait for the shutdown event.  Another coroutine runs only
\* while the consumer task waits in an await.
CancelApplication ==
    /\ app.main = "gather" /\ ~app.cancelled
    /\ \A t \in ProcessorTasks : pc[t] \in Awaits
    /\ app' = [app EXCEPT !.cancelled = TRUE]
    /\ UNCHANGED <<processed_signals, lock, signal_queue, hpc, hsig, delivered,
                   decisions, enqueued, symbols_cache, xt_leverage, pc, cur,
                   loc, dequeued, finished, exchange_calls, hlate,
                   harnessVars>>

\* ChannelParser.start leaves its wait on the stop event, because the event
\* was set or because the task was cancelled ("except CancelledError:
\* pass"), and its finally clears _running
ParserTaskEnds ==
    /\ app.parser_task = "wait"
    /\ app.cancelled \/ app.stop_event
    /\ app' = [app EXCEPT !.parser_task = "done", !.parser_running = FALSE]
    /\ UNCHANGED <<processed_signals, lock, signal_queue, hpc, hsig, delivered,
                   decisions, enqueued, symbols_cache, xt_leverage, pc, cur,
                   loc, dequeued, finished, exchange_calls, hlate,
                   harnessVars>>

\* a loop that logs the cancellation and goes round again
KeepsLoopingWhenCancelled(t) == "get"

\* process_signals_queue: "except asyncio.CancelledError: ... break"
BreaksWhenCancelled(t) == "exited"

\* CancelledError comes out of the await the consumer task waits in.  It is
\* no Exception: out of an await inside open_position_with_signal it passes
\* that method's "except Exception" and reaches the loop's handler.  gather
\* cancels its children in the order they were given and the event loop
\* wakes them in that order: parser_task before processor_task.
ConsumerCancelled(t) ==
    /\ app.cancelled
    /\ app.parser_task = "done"
    /\ pc[t] \in Awaits
    /\ pc' = [pc EXCEPT ![t] = BreaksWhenCancelled(t)]
    /\ IF pc[t] = "get"
       THEN UNCHANGED finished
       ELSE finished' = Append(finished, [id |-> loc[t].id,
                                          signal |-> cur[t][1],
                                          outcome |-> "cancelled"])
    /\ UNCHANGED <<processed_signals, lock, signal_queue, hpc, hsig, delivered,
                   decisions, enqueued, symbols_cache, xt_leverage, cur, loc,
                   dequeued, exchange_calls, app, hlate, harnessVars>>

\* gather's children are through with their cancellation; CancelledError
\* comes out of gather, is logged and raised again, and the finally clause
\* of BotApplication.start calls stop()
MainCancelled ==
    /\ app.main = "gather" /\ app.cancelled
    /\ app.parser_task = "done"
    /\ \A t \in ProcessorTasks : pc[t] = "exited"
    /\ app' = [app EXCEPT !.main = "stop"]
    /\ UNCHANGED <<processed_signals, lock, signal_queue, hpc, hsig, delivered,
                   decisions, enqueued, symbols_cache, xt_leverage, pc, cur,
                   loc, dequeued, finished, exchange_calls, hlate,
                   harnessVars>>

\* BotApplication.stop up to its await: running is cleared and
\* ChannelParser.stop() sets the stop event
BotStop ==
    /\ app.main = "stop"
    /\ IF ~app.running
       THEN app' = [app EXCEPT !.main = "stopped"]
       ELSE app' = [app EXCEPT !.running = FALSE, !.stop_event = TRUE,
                               !.main = "disconnect"]
    /\ UNCHANGED <<processed_signals, lock, signal_queue, hpc, hsig, delivered,
                   decisions, enqueued, symbols_cache, xt_leverage, pc, cur,
                   loc, dequeued, finished, exchange_calls, hlate,
                   harnessVars>>

\* await self.telegram_auth.disconnect() returns: the transport is
\* disconnected, or the attempt failed with a logged warning; then the
\* shutdown event is set
Disconnect ==
    /\ app.main = "disconnect"
    /\ \E ok \in BOOLEAN :
          app' = [app EXCEPT !.is_connected = IF ok THEN FALSE
                                              ELSE app.is_connected,
                             !.shutdown_event = TRUE,
                             !.main = "stopped"]
    /\ UNCHANGED <<processed_signals, lock, signal_queue, hpc, hsig, delivered,
                   decisions, enqueued, symbols_cache, xt_leverage, pc, cur,
                   loc, dequeued, finished, exchange_calls, hlate,
                   harnessVars>>

Next ==
    \/ \E h \in Handlers, text \in Messages : HandleNewMessage(h, text)
    \/ \E h \in Handlers : LockAcquire(h)
    \/ \E h \in Handlers : CheckProcessed(h)
    \/ \E h \in Handlers : AddProcessed(h)
    \/ \E h \in Handlers : PutSignal(h)
    \/ \E t \in ProcessorTasks : ConsumerGet(t)
    \/ \E t \in ProcessorTasks : OpenPositionWithSignal(t)
    \/ \E t \in ProcessorTasks : TaskDone(t)
    \/ CancelApplication
    \/ ParserTaskEnds
    \/ \E t \in ProcessorTasks : ConsumerCancelled(t)
    \/ MainCancelled
    \/ BotStop
    \/ Disconnect

Spec == Init /\ [][Next]_vars

\* The event loop runs every callback that is ready: a coroutine that can
\* take its next step takes it.  When a message arrives and when the owner
\* cancels is up to the outside.
Fairness ==
    /\ \A h \in Handlers :
          /\ WF_vars(LockAcquire(h)) /\ WF_vars(CheckProcessed(h))
          /\ WF_vars(AddProcessed(h)) /\ WF_vars(PutSignal(h))
    /\ \A t \in ProcessorTasks :
          /\ WF_vars(ConsumerGet(t)) /\ WF_vars(OpenPositionWithSignal(t))
          /\ WF_vars(TaskDone(t)) /\ WF_vars(ConsumerCancelled(t))
    /\ WF_vars(ParserTaskEnds) /\ WF_vars(MainCancelled)
    /\ WF_vars(BotStop) /\ WF_vars(Disconnect)

SpecFair == Spec /\ Fairness

\* ------------------------------------- the sizing functions on their own

SzConfigs ==
    {[balance |-> 1000, amount |-> 10], [balance |-> 100, amount |-> 100],
     [balance |-> 50, amount |-> 1]}
SzLeverages == {1, 3, 5}
\* 100.0, 15.5, 333.33, 2.5
SzEntries == {Float1(1000), Float1(155), [m |-> 33333, d |-> 2], Float1(25)}
\* 1.0, 0.1, 0.01, 10.0
SzContractSizes == {Float1(10), Float1(1), [m |-> 1, d |-> 2], Float1(100)}
\* 0.001 goes with the prices written with one decimal place, which keeps
\* the products within 32 bits
SzContractSizesFor(entry_price) ==
    SzContractSizes
        \cup (IF entry_price.d = 1 THEN {[m |-> 1, d |-> 3]} ELSE {})
SzPrices(n) == [i \in 1..n |-> Float1(1000 + 100 * i)]
\* the take-profits of a long signal rise, those of a short signal fall,
\* and a list may come in no order at all
SzPricesFalling(n) == [i \in 1..n |-> Float1(2000 - 100 * i)]
SzPricesMixed(n) == [i \in 1..n |-> Float1(1000 + 100 * ((3 * i) % 7))]
SzPriceLists(n) == {SzPrices(n), SzPricesFalling(n), SzPricesMixed(n)}

InitSizer ==
    /\ InitPipeline
    /\ \E config \in SzConfigs, leverage \in SzLeverages,
          entry_price \in SzEntries, total_qty \in 0..MaxTotalQty,
          n \in 1..MaxTps :
       \E contract_size \in SzContractSizesFor(entry_price),
          tp_prices \in SzPriceLists(n) :
          sz = [on |-> TRUE, config |-> config, entry_price |-> entry_price,
                leverage |-> leverage, contract_size |-> contract_size,
                total_qty |-> total_qty, tp_prices |-> tp_prices,
                position_size |-> None, orders |-> None,
                market |-> None, limits |-> None]
    /\ od = OdIdle
    /\ px = PxIdle
    /\ cf = CfIdle
    /\ ns = NsIdle
    /\ bs = BsIdle

\* position_size = calculate_position_size(entry, leverage, contract_size)
ApplyCalculatePositionSize ==
    /\ sz.on /\ sz.position_size = None
    /\ sz' = [sz EXCEPT !.position_size =
                 Some(CalculatePositionSize(sz.config, sz.entry_price,
                                            sz.leverage, sz.contract_size))]
    /\ UNCHANGED <<pipeVars, od, px, cf, ns, bs>>

\* tp_orders = split_tp_orders(total_qty, tp_prices, contract_size)
ApplySplitTpOrders ==
    /\ sz.on /\ sz.orders = None
    /\ sz' = [sz EXCEPT !.orders =
                 Some(SplitTpOrders(sz.total_qty, sz.tp_prices,
                                    sz.contract_size))]
    /\ UNCHANGED <<pipeVars, od, px, cf, ns, bs>>

\* send_order(..., amount=int(qty), ...): the amount that goes out
SentAmount(qty) == qty

\* await self.xt_client.place_market_order(..., qty=position_size, ...),
\* the statement that follows the sizing in open_position_with_signal
ApplyPlaceMarketOrder ==
    /\ sz.on /\ sz.position_size # None /\ sz.market = None
    /\ sz' = [sz EXCEPT !.market = Some(SentAmount(sz.position_size[1]))]
    /\ UNCHANGED <<pipeVars, od, px, cf, ns, bs>>

\* await self.xt_client.place_reduce_limit_orders(orders=tp_orders, ...):
\* one send_order for every order of the list
ApplyPlaceReduceLimitOrders ==
    /\ sz.on /\ sz.orders # None /\ sz.limits = None
    /\ sz' = [sz EXCEPT !.limits =
                 Some([k \in 1..Len(sz.orders[1]) |->
                          [price |-> sz.orders[1][k].price,
                           amount |-> SentAmount(sz.orders[1][k].qty)]])]
    /\ UNCHANGED <<pipeVars, od, px, cf, ns, bs>>

NextSizer ==
    \/ ApplyCalculatePositionSize
    \/ ApplySplitTpOrders
    \/ ApplyPlaceMarketOrder
    \/ ApplyPlaceReduceLimitOrders

SpecSizer == InitSizer /\ [][NextSizer]_vars

\* --------------------------------- the order-placing methods on their own
\* One task awaits the methods the way position_manager.py:134-152 does
\* (place_market_order, then place_reduce_limit_orders), or calls
\* place_reduce_limit_orders directly.  Each await of asyncio.to_thread is
\* one step; the task can be cancelled while it waits there.

OdClients == {"XTClient", "BybitClient"}

\* the orders split_tp_orders handed over: n prices, one contract each
OdOrders(n) == [k \in 1..n |-> [price |-> Float1(1000 + 100 * k), qty |-> 1]]

InitOrders ==
    /\ InitPipeline
    /\ sz = SzIdle
    /\ px = PxIdle
    /\ cf = CfIdle
    /\ ns = NsIdle
    /\ bs = BsIdle
    /\ \E client \in OdClients, n \in 1..MaxTps, start \in {"market", "tp"} :
          od = [on |-> TRUE, client |-> client, pc |-> start,
                orders |-> OdOrders(n), i |-> 1, order_ids |-> <<>>,
                calls |-> <<>>, cancel |-> FALSE]

\* place_reduce_limit_orders wraps each send in "try ... except Exception"
\* (XTClient), or in nothing (BybitClient)
TpCatchesException(client) == client = "XTClient"

\* place_market_order: one send_order; any answer but rc == 0 raises
\* RuntimeError, an exception of the send goes up as it is
PlaceMarketOrder ==
    /\ od.on /\ od.pc = "market" /\ ~od.cancel
    /\ \E answer \in OrderAnswers :
          od' = [od EXCEPT
                   !.calls = Append(od.calls, [op |-> "MARKET", k |-> 0,
                                               result |-> answer]),
                   !.pc = IF answer = "ok" THEN "tp" ELSE "market_raised"]
    /\ UNCHANGED <<pipeVars, sz, px, cf, ns, bs>>

\* place_reduce_limit_orders, one turn of its loop: the order is sent; an
\* error answer is logged and the loop continues; an exception of the send
\* is logged and the loop continues if the send is wrapped, and leaves the
\* method otherwise; after the last order the ids collected are returned
PlaceReduceLimitOrder ==
    /\ od.on /\ od.pc = "tp" /\ ~od.cancel
    /\ \E answer \in OrderAnswers :
          LET call == [op |-> "LIMIT", k |-> od.i, result |-> answer]
              escapes == answer = "exception" /\ ~TpCatchesException(od.client)
          IN  od' = [od EXCEPT
                       !.calls = Append(od.calls, call),
                       !.order_ids = IF answer = "ok"
                                     THEN Append(od.order_ids, od.i)
                                     ELSE od.order_ids,
                       !.i = od.i + 1,
                       !.pc = IF escapes THEN "tp_raised"
                              ELSE IF od.i < Len(od.orders) THEN "tp"
                              ELSE "tp_returned"]
    /\ UNCHANGED <<pipeVars, sz, px, cf, ns, bs>>

\* task.cancel() while the task waits in an await
CancelTask ==
    /\ od.on /\ od.pc \in {"market", "tp"} /\ ~od.cancel
    /\ od' = [od EXCEPT !.cancel = TRUE]
    /\ UNCHANGED <<pipeVars, sz, px, cf, ns, bs>>

\* CancelledError comes out of the await: it is no Exception, so neither
\* the method nor its caller catches it before process_signals_queue does.
\* The request the worker thread holds has gone out or has not.
TaskCancelled ==
    /\ od.on /\ od.cancel /\ od.pc \in {"market", "tp"}
    /\ \E sent \in BOOLEAN :
          od' = [od EXCEPT
                   !.calls = IF sent
                             THEN Append(od.calls,
                                      [op |-> IF od.pc = "market" THEN "MARKET"
                                              ELSE "LIMIT",
                                       k |-> IF od.pc = "market" THEN 0 ELSE od.i,
                                       result |-> "ok"])
                             ELSE od.calls,
                   !.pc = "cancelled"]
    /\ UNCHANGED <<pipeVars, sz, px, cf, ns, bs>>

NextOrders ==
    \/ PlaceMarketOrder
    \/ PlaceReduceLimitOrder
    \/ CancelTask
    \/ TaskCancelled

SpecOrders == InitOrders /\ [][NextOrders]_vars

\* ------------------------------ the validator and the parser on their own
\* A text is put together from one variant of each part of a signal
\* message, the parts joined by line feeds in one of two orders.  Two of
\* the heads and one of the stops carry a second line.

PxFirstLines ==
    <<
       \* "[green] Long ETH/USDT"
       <<GreenSquare, " ", "L", "o", "n", "g", " ", "E", "T", "H", "/", "U",
         "S", "D", "T">>,
       \* "[red] #B/USDT short"
       <<RedSquare, " ", "#", "B", "/", "U", "S", "D", "T", " ", "s", "h",
         "o", "r", "t">>,
       \* "B/USDT Long or Short"
       <<"B", "/", "U", "S", "D", "T", " ", "L", "o", "n", "g", " ", "o",
         "r", " ", "S", "h", "o", "r", "t">>,
       \* "ETH/USDT"
       <<"E", "T", "H", "/", "U", "S", "D", "T">>,
       \* "[green] eth/usdt long"
       <<GreenSquare, " ", "e", "t", "h", "/", "u", "s", "d", "t", " ", "l",
         "o", "n", "g">>,
       \* ""
       <<>>,
       \* "ETH/USDT\n[red] short"
       <<"E", "T", "H", "/", "U", "S", "D", "T", NL, RedSquare, " ", "s",
         "h", "o", "r", "t">>,
       \* "[green] Long ETH/USDT\nshort"
       <<GreenSquare, " ", "L", "o", "n", "g", " ", "E", "T", "H", "/", "U",
         "S", "D", "T", NL, "s", "h", "o", "r", "t">>
    >>

PxLeverages ==
    <<
       \* "Leverage: x (10X)"
       <<"L", "e", "v", "e", "r", "a", "g", "e", ":", " ", "x", " ", "(",
         "1", "0", "X", ")">>,
       \* "leverage: cross (5x)"
       <<"l", "e", "v", "e", "r", "a", "g", "e", ":", " ", "c", "r", "o",
         "s", "s", " ", "(", "5", "x", ")">>,
       \* "Leverage: Cross (0X)"
       <<"L", "e", "v", "e", "r", "a", "g", "e", ":", " ", "C", "r", "o",
         "s", "s", " ", "(", "0", "X", ")">>,
       \* "Leverage: 10X"
       <<"L", "e", "v", "e", "r", "a", "g", "e", ":", " ", "1", "0", "X">>,
       \* ""
       <<>>
    >>

PxEntries ==
    <<
       \* "Entry Targets: 2000.0"
       <<"E", "n", "t", "r", "y", " ", "T", "a", "r", "g", "e", "t", "s",
         ":", " ", "2", "0", "0", "0", ".", "0">>,
       \* "ENTRY TARGETS:\n100"
       <<"E", "N", "T", "R", "Y", " ", "T", "A", "R", "G", "E", "T", "S",
         ":", NL, "1", "0", "0">>,
       \* "Entry Targets: 0.0"
       <<"E", "n", "t", "r", "y", " ", "T", "a", "r", "g", "e", "t", "s",
         ":", " ", "0", ".", "0">>,
       \* "Entry Targets: soon"
       <<"E", "n", "t", "r", "y", " ", "T", "a", "r", "g", "e", "t", "s",
         ":", " ", "s", "o", "o", "n">>,
       \* ""
       <<>>
    >>

PxTakeProfits ==
    <<
       \* "Take-Profit Targets: 1) 2100 2) 2200"
       <<"T", "a", "k", "e", "-", "P", "r", "o", "f", "i", "t", " ", "T",
         "a", "r", "g", "e", "t", "s", ":", " ", "1", ")", " ", "2", "1",
         "0", "0", " ", "2", ")", " ", "2", "2", "0", "0">>,
       \* "take-profit targets:\n1) 110.5"
       <<"t", "a", "k", "e", "-", "p", "r", "o", "f", "i", "t", " ", "t",
         "a", "r", "g", "e", "t", "s", ":", NL, "1", ")", " ", "1", "1", "0",
         ".", "5">>,
       \* "Take-Profit Targets: none"
       <<"T", "a", "k", "e", "-", "P", "r", "o", "f", "i", "t", " ", "T",
         "a", "r", "g", "e", "t", "s", ":", " ", "n", "o", "n", "e">>,
       \* ""
       <<>>
    >>

PxStops ==
    <<
       \* "Stop Targets: 1900"
       <<"S", "t", "o", "p", " ", "T", "a", "r", "g", "e", "t", "s", ":",
         " ", "1", "9", "0", "0">>,
       \* "STOP TARGETS: 0"
       <<"S", "T", "O", "P", " ", "T", "A", "R", "G", "E", "T", "S", ":",
         " ", "0">>,
       \* "Stop Targets: -"
       <<"S", "t", "o", "p", " ", "T", "a", "r", "g", "e", "t", "s", ":",
         " ", "-">>,
       \* ""
       <<>>,
       \* "Stop Targets: 1900\n3) 2300"
       <<"S", "t", "o", "p", " ", "T", "a", "r", "g", "e", "t", "s", ":",
         " ", "1", "9", "0", "0", NL, "3", ")", " ", "2", "3", "0", "0">>
    >>

\* first line, leverage, entry, take-profits, stop; and first line, stop,
\* take-profits, entry, leverage
PxOrders == <<<<1, 2, 3, 4, 5>>, <<1, 5, 4, 3, 2>>>>

\* "\n".join of the parts that are not empty
RECURSIVE PxJoin(_)
PxJoin(parts) ==
    IF parts = <<>> THEN <<>>
    ELSE LET rest == PxJoin(Tail(parts))
         IN  IF Head(parts) = <<>> THEN rest
             ELSE IF rest = <<>> THEN Head(parts)
             ELSE Head(parts) \o <<NL>> \o rest

PxTextOf(f, l, e, t, s, o) ==
    LET parts == <<PxFirstLines[f], PxLeverages[l], PxEntries[e],
                   PxTakeProfits[t], PxStops[s]>>
    IN  PxJoin([k \in 1..5 |-> parts[PxOrders[o][k]]])

InitParser ==
    /\ InitPipeline
    /\ sz = SzIdle
    /\ od = OdIdle
    /\ cf = CfIdle
    /\ ns = NsIdle
    /\ bs = BsIdle
    /\ \/ px = [on |-> TRUE, parts |-> <<>>, text |-> None,
                is_signal |-> None, outcome |-> None]
       \/ \E f \in DOMAIN PxFirstLines, l \in DOMAIN PxLeverages,
             e \in DOMAIN PxEntries, t \in DOMAIN PxTakeProfits,
             s \in DOMAIN PxStops, o \in DOMAIN PxOrders :
             px = [on |-> TRUE, parts |-> <<f, l, e, t, s, o>>,
                   text |-> Some(PxTextOf(f, l, e, t, s, o)),
                   is_signal |-> None, outcome |-> None]

\* SignalValidator.is_signal(text)
ApplyIsSignal ==
    /\ px.on /\ px.is_signal = None
    /\ px' = [px EXCEPT !.is_signal = Some(IsSignal(px.text))]
    /\ UNCHANGED <<pipeVars, sz, od, cf, ns, bs>>

\* SignalParser.parse(text)
ApplyParse ==
    /\ px.on /\ px.outcome = None
    /\ px' = [px EXCEPT !.outcome = Some(ParseOutcome(px.text))]
    /\ UNCHANGED <<pipeVars, sz, od, cf, ns, bs>>

NextParser == ApplyIsSignal \/ ApplyParse

SpecParser == InitParser /\ [][NextParser]_vars

\* ------------------------------------------ TradingConfig.from_env on its own
\* A float is its kind (finite, inf, nan), its sign and, when finite, the
\* decimal m / 10^d that repr() writes.

\* float() of a string: surrounding whitespace is dropped, a sign may come
\* first, then "nan", "inf" or "infinity" in any case, or digits with an
\* optional point; anything else is a ValueError (exponents and underscores
\* are not among the strings drawn below)
FloatOfStr(s) ==
    LET t == Strip(s)
        signed == t # <<>> /\ t[1] \in {"+", "-"}
        neg == signed /\ t[1] = "-"
        body == IF signed THEN Tail(t) ELSE t
        low == Lower(body)
        j == DigitsEnd(body, 1)
        dot == j + 1 <= Len(body) /\ body[j + 1] = "."
        k == IF dot THEN DigitsEnd(body, j + 2) ELSE j
        whole == SubSeq(body, 1, j)
        frac == IF dot THEN SubSeq(body, j + 2, k) ELSE <<>>
    IN  IF low = <<"n", "a", "n">>
        THEN [ok |-> TRUE, kind |-> "nan", neg |-> neg, m |-> 0, d |-> 1]
        ELSE IF low \in {<<"i", "n", "f">>,
                         <<"i", "n", "f", "i", "n", "i", "t", "y">>}
        THEN [ok |-> TRUE, kind |-> "inf", neg |-> neg, m |-> 0, d |-> 1]
        ELSE IF k = Len(body) /\ (whole # <<>> \/ frac # <<>>)
        THEN [ok |-> TRUE, kind |-> "finite", neg |-> neg,
              m |-> FloatOfDigits(whole, frac).m,
              d |-> FloatOfDigits(whole, frac).d]
        ELSE [ok |-> FALSE, kind |-> "nan", neg |-> FALSE, m |-> 0, d |-> 1]

\* x <= 0 for a float x: false for nan
FloatLeZero(x) ==
    CASE x.kind = "nan" -> FALSE
      [] x.kind = "inf" -> x.neg
      [] OTHER -> x.neg \/ x.m = 0

\* x > n for a float x and an int n >= 0: false for nan
FloatGtInt(x, n) ==
    CASE x.kind = "nan" -> FALSE
      [] x.kind = "inf" -> ~x.neg
      [] OTHER -> ~x.neg /\ x.m > n * Pow10(x.d)

\* "if not value": os.getenv gave None or an empty string
NotSet(value) == value = None \/ value[1] = <<>>

\* TradingConfig.from_env on the environment env; raised is the exception
\* that leaves it ("": none), config what it returns
FromEnv(env) ==
    LET failed == [raised |-> "ValueError", config |-> None]
    IN  IF \/ NotSet(env.BALANCE) \/ NotSet(env.AMOUNT)
           \/ NotSet(env.BYBIT_API_KEY) \/ NotSet(env.BYBIT_API_SECRET)
        THEN failed
        ELSE LET balance == FloatOfStr(env.BALANCE[1])
                 amount == FloatOfStr(env.AMOUNT[1])
             IN  IF ~balance.ok \/ ~amount.ok THEN failed
                 ELSE IF FloatLeZero(balance) THEN failed
                 ELSE IF FloatLeZero(amount) \/ FloatGtInt(amount, 100)
                 THEN failed
                 ELSE [raised |-> "",
                       config |-> Some([balance |-> balance,
                                        amount |-> amount,
                                        api_key |-> env.BYBIT_API_KEY[1],
                                        api_secret |->
                                            env.BYBIT_API_SECRET[1]])]

\* what BALANCE and AMOUNT may be set to: unset, "", "abc", "0", "-5",
\* "0.5", "50", "100", "100.5", "1000", " 50 ", "nan", "inf"
CfNumbers ==
    {None, Some(<<>>), Some(<<"a", "b", "c">>), Some(<<"0">>),
     Some(<<"-", "5">>), Some(<<"0", ".", "5">>), Some(<<"5", "0">>),
     Some(<<"1", "0", "0">>), Some(<<"1", "0", "0", ".", "5">>),
     Some(<<"1", "0", "0", "0">>), Some(<<" ", "5", "0", " ">>),
     Some(<<"n", "a", "n">>), Some(<<"i", "n", "f">>)}

\* what the two credentials may be set to: unset, "", "k"
CfSecrets == {None, Some(<<>>), Some(<<"k">>)}

InitConfig ==
    /\ InitPipeline
    /\ sz = SzIdle
    /\ od = OdIdle
    /\ px = PxIdle
    /\ ns = NsIdle
    /\ bs = BsIdle
    /\ \E balance \in CfNumbers, amount \in CfNumbers,
          api_key \in CfSecrets, api_secret \in CfSecrets :
          cf = [on |-> TRUE,
                env |-> [BALANCE |-> balance, AMOUNT |-> amount,
                         BYBIT_API_KEY |-> api_key,
                         BYBIT_API_SECRET |-> api_secret],
                result |-> None]

\* trading_config = TradingConfig.from_env()
ApplyFromEnv ==
    /\ cf.on /\ cf.result = None
    /\ cf' = [cf EXCEPT !.result = Some(FromEnv(cf.env))]
    /\ UNCHANGED <<pipeVars, sz, od, px, ns, bs>>

NextConfig == ApplyFromEnv

SpecConfig == InitConfig /\ [][NextConfig]_vars

\* --------------------------------------------- normalize_symbol on its own

\* str.capitalize(): the first character as it is written in upper case,
\* the rest lowered
Capitalized(s) == <<Head(s)>> \o Lower(Tail(s))

\* base assets written in upper case
NsBases == {<<"B", "T", "C">>, <<"E", "T", "H">>, <<"B">>,
            <<"1", "0", "P", "E", "P", "E">>}

\* quote assets written in upper case
NsQuotes == {USDT, <<"U", "S", "D", "C">>}

\* how the letters of a symbol may be cased
NsCases == {"upper", "lower", "capitalized"}

Cased(s, case) ==
    CASE case = "upper" -> s
      [] case = "lower" -> Lower(s)
      [] case = "capitalized" -> Capitalized(s)

\* how the two assets of a pair may be joined: 'BTC/USDT', 'BTC-USDT',
\* 'BTCUSDT', 'BTC_USDT'
NsSpellings == {"slash", "dash", "concatenated", "underscore"}

NsSeparator(spelling) ==
    CASE spelling = "slash" -> <<"/">>
      [] spelling = "dash" -> <<"-">>
      [] spelling = "concatenated" -> <<>>
      [] spelling = "underscore" -> <<"_">>

Spelled(pair, spelling) ==
    Cased(pair.base, pair.case) \o NsSeparator(spelling)
        \o Cased(pair.quote, pair.case)

InitNormalize ==
    /\ InitPipeline
    /\ sz = SzIdle
    /\ od = OdIdle
    /\ px = PxIdle
    /\ cf = CfIdle
    /\ bs = BsIdle
    /\ \E base \in NsBases, quote \in NsQuotes, case \in NsCases :
          ns = [on |-> TRUE,
                pair |-> [base |-> base, quote |-> quote, case |-> case],
                out |-> [spelling \in NsSpellings |-> None],
                again |-> [spelling \in NsSpellings |-> None]]

\* normalize_symbol(symbol) for one spelling of the pair
ApplyNormalizeSymbol(spelling) ==
    /\ ns.on /\ ns.out[spelling] = None
    /\ ns' = [ns EXCEPT !.out[spelling] =
                  Some(NormalizeSymbol(Spelled(ns.pair, spelling)))]
    /\ UNCHANGED <<pipeVars, sz, od, px, cf, bs>>

\* normalize_symbol applied to what it returned
ApplyNormalizeAgain(spelling) ==
    /\ ns.on /\ ns.out[spelling] # None /\ ns.again[spelling] = None
    /\ ns' = [ns EXCEPT !.again[spelling] =
                  Some(NormalizeSymbol(ns.out[spelling][1]))]
    /\ UNCHANGED <<pipeVars, sz, od, px, cf, bs>>

NextNormalize ==
    \/ \E spelling \in NsSpellings : ApplyNormalizeSymbol(spelling)
    \/ \E spelling \in NsSpellings : ApplyNormalizeAgain(spelling)

SpecNormalize == InitNormalize /\ [][NextNormalize]_vars

\* ------------------------------------- BotApplication.start from its top
\* start() is cut at its awaits.  The transport, the environment and the
\* exchange answer as they please; the owner may cancel the main task once,
\* while it waits in one of start()'s own awaits.

\* an exception reaches start()'s handlers: an Exception is logged by
\* "except Exception", anything else (CancelledError, KeyboardInterrupt)
\* passes it; either way the finally clause calls stop()
BsRaise(b, exc) ==
    [b EXCEPT !.main = "stop",
              !.raised = IF exc = "Exception" THEN b.raised ELSE exc,
              !.stop_calls = b.stop_calls + 1]

\* how TelegramAuth.connect may end
ConnectOutcomes == {"ok", "connect_failed", "auth_failed", "interrupted"}

\* client = await self.telegram_auth.connect(): the client object is built,
\* client.connect() sets is_connected, then get_me() or the authorization
\* may raise; _authorize turns a cancelled prompt into KeyboardInterrupt
BsConnect ==
    /\ bs.on /\ bs.main = "connect"
    /\ \E outcome \in ConnectOutcomes :
          LET built == [bs EXCEPT !.client = TRUE]
              connected == [built EXCEPT !.is_connected = TRUE,
                                         !.was_connected = TRUE]
          IN  bs' = CASE outcome = "ok" ->
                           [connected EXCEPT !.main = "from_env"]
                      [] outcome = "connect_failed" ->
                           BsRaise(built, "Exception")
                      [] outcome = "auth_failed" ->
                           BsRaise(connected, "Exception")
                      [] outcome = "interrupted" ->
                           BsRaise(connected, "KeyboardInterrupt")
    /\ UNCHANGED <<pipeVars, sz, od, px, cf, ns>>

\* trading_config = TradingConfig.from_env(); xt_client = XTClient(...)
BsFromEnv ==
    /\ bs.on /\ bs.main = "from_env"
    /\ \E ok \in BOOLEAN :
          bs' = IF ok THEN [bs EXCEPT !.main = "load"]
                ELSE BsRaise(bs, "Exception")
    /\ UNCHANGED <<pipeVars, sz, od, px, cf, ns>>

\* await symbols_cache.load(): returns, or raises RuntimeError
BsLoad ==
    /\ bs.on /\ bs.main = "load"
    /\ \E ok \in BOOLEAN :
          bs' = IF ok THEN [bs EXCEPT !.main = "create"]
                ELSE BsRaise(bs, "Exception")
    /\ UNCHANGED <<pipeVars, sz, od, px, cf, ns>>

\* the position manager and the parser are built, running is set and the
\* two tasks are created; the main task goes to wait_ready()
BsCreate ==
    /\ bs.on /\ bs.main = "create"
    /\ bs' = [bs EXCEPT !.channel_parser = TRUE, !.running = TRUE,
                        !.parser = "created", !.processor = "get",
                        !.main = "wait_ready"]
    /\ UNCHANGED <<pipeVars, sz, od, px, cf, ns>>

\* ChannelParser.start up to its first await: it returns at once when it
\* runs already or when there is no active channel
BsParserStart ==
    /\ bs.on /\ bs.parser = "created"
    /\ bs' = IF bs.parser_running \/ bs.channels = 0
             THEN [bs EXCEPT !.parser = "done"]
             ELSE [bs EXCEPT !.parser_running = TRUE, !.parser = "titles"]
    /\ UNCHANGED <<pipeVars, sz, od, px, cf, ns>>

\* _load_channel_titles, one channel: the title, or "ID: ..." after any
\* exception of get_entity
BsLoadTitle ==
    /\ bs.on /\ bs.parser = "titles" /\ Len(bs.titles) < bs.channels
    /\ \E title \in {"title", "id"} :
          bs' = [bs EXCEPT !.titles = Append(bs.titles, title)]
    /\ UNCHANGED <<pipeVars, sz, od, px, cf, ns>>

\* the titles are loaded: the handler is registered, the ready event is
\* set and the task waits on the stop event
BsRegister ==
    /\ bs.on /\ bs.parser = "titles" /\ Len(bs.titles) = bs.channels
    /\ bs' = [bs EXCEPT !.handler_registered = TRUE, !.ready_event = TRUE,
                        !.parser = "wait"]
    /\ UNCHANGED <<pipeVars, sz, od, px, cf, ns>>

\* ChannelParser.start leaves its wait: the stop event was set, or gather
\* cancelled the task; the finally clause clears _running
BsParserEnds ==
    /\ bs.on /\ bs.parser = "wait"
    /\ bs.stop_event \/ bs.cancelled = "gather"
    /\ bs' = [bs EXCEPT !.parser = "done", !.parser_running = FALSE]
    /\ UNCHANGED <<pipeVars, sz, od, px, cf, ns>>

\* await self.channel_parser.wait_ready() returns
BsWaitReady ==
    /\ bs.on /\ bs.main = "wait_ready" /\ bs.ready_event
    /\ bs' = [bs EXCEPT !.main = "gather"]
    /\ UNCHANGED <<pipeVars, sz, od, px, cf, ns>>

\* the awaits of start() in which the main task can be cancelled
BsAwaits == {"load", "wait_ready", "gather"}

\* The owner cancels the main task.  In gather the cancellation goes to
\* the children first; in another await CancelledError comes out of it at
\* once and runs the finally clause.
BsCancel ==
    /\ bs.on /\ bs.cancelled = "" /\ bs.main \in BsAwaits
    /\ bs' = IF bs.main = "gather"
             THEN [bs EXCEPT !.cancelled = "gather"]
             ELSE [BsRaise(bs, "CancelledError") EXCEPT !.cancelled = bs.main]
    /\ UNCHANGED <<pipeVars, sz, od, px, cf, ns>>

\* process_signals_queue is cancelled by gather, after the parser task
BsProcessorCancelled ==
    /\ bs.on /\ bs.cancelled = "gather"
    /\ bs.parser = "done" /\ bs.processor = "get"
    /\ bs' = [bs EXCEPT !.processor = BreaksWhenCancelled("processor_task")]
    /\ UNCHANGED <<pipeVars, sz, od, px, cf, ns>>

\* both children are through: CancelledError comes out of gather, is
\* logged and raised again, and the finally clause calls stop()
BsGatherCancelled ==
    /\ bs.on /\ bs.main = "gather" /\ bs.cancelled = "gather"
    /\ bs.parser = "done" /\ bs.processor = "exited"
    /\ bs' = BsRaise(bs, "CancelledError")
    /\ UNCHANGED <<pipeVars, sz, od, px, cf, ns>>

\* a stop() that goes through its actions on every call
StopNeverReturnsEarly(running) == FALSE

\* BotApplication.stop: "if not self.running: return"
StopReturnsEarly(running) == ~running

\* BotApplication.stop up to its await
BsStop ==
    /\ bs.on /\ bs.main = "stop"
    /\ bs' = IF StopReturnsEarly(bs.running)
             THEN [bs EXCEPT !.main = "returned"]
             ELSE [bs EXCEPT !.running = FALSE,
                             !.stop_event = bs.stop_event \/ bs.channel_parser,
                             !.stops = bs.stops + 1,
                             !.main = "disconnect"]
    /\ UNCHANGED <<pipeVars, sz, od, px, cf, ns>>

\* await self.telegram_auth.disconnect(): with a connected client the
\* transport is disconnected, or the failure is logged as a warning; then
\* stop() sets the shutdown event
BsDisconnect ==
    /\ bs.on /\ bs.main = "disconnect"
    /\ \E ok \in BOOLEAN :
          bs' = [bs EXCEPT !.is_connected =
                               IF bs.client /\ bs.is_connected /\ ok
                               THEN FALSE ELSE bs.is_connected,
                           !.disconnects =
                               IF bs.client /\ bs.is_connected
                               THEN bs.disconnects + 1 ELSE bs.disconnects,
                           !.shutdown_event = TRUE,
                           !.main = "returned"]
    /\ UNCHANGED <<pipeVars, sz, od, px, cf, ns>>

\* somebody calls stop() once more after start() has returned
BsStopAgain ==
    /\ bs.on /\ bs.main = "returned"
    /\ bs.stop_calls < 1 + MaxStopCalls
    /\ bs' = [bs EXCEPT !.main = "stop", !.stop_calls = bs.stop_calls + 1]
    /\ UNCHANGED <<pipeVars, sz, od, px, cf, ns>>

InitStartup ==
    /\ InitPipeline
    /\ sz = SzIdle
    /\ od = OdIdle
    /\ px = PxIdle
    /\ cf = CfIdle
    /\ ns = NsIdle
    /\ \E channels \in 0..MaxChannels :
          bs = [BsNew EXCEPT !.on = TRUE, !.channels = channels]

NextStartup ==
    \/ BsConnect
    \/ BsFromEnv
    \/ BsLoad
    \/ BsCreate
    \/ BsParserStart
    \/ BsLoadTitle
    \/ BsRegister
    \/ BsParserEnds
    \/ BsWaitReady
    \/ BsCancel
    \/ BsProcessorCancelled
    \/ BsGatherCancelled
    \/ BsStop
    \/ BsDisconnect
    \/ BsStopAgain

SpecStartup == InitStartup /\ [][NextStartup]_vars

\* the event loop runs every coroutine that is ready and every awaited
\* call returns or raises; whether and when the owner cancels, and whether
\* anybody calls stop() again, is up to the outside
FairnessStartup ==
    /\ WF_vars(BsConnect) /\ WF_vars(BsFromEnv) /\ WF_vars(BsLoad)
    /\ WF_vars(BsCreate) /\ WF_vars(BsParserStart) /\ WF_vars(BsLoadTitle)
    /\ WF_vars(BsRegister) /\ WF_vars(BsParserEnds) /\ WF_vars(BsWaitReady)
    /\ WF_vars(BsProcessorCancelled) /\ WF_vars(BsGatherCancelled)
    /\ WF_vars(BsStop) /\ WF_vars(BsDisconnect)

SpecStartupFair == SpecStartup /\ FairnessStartup

\* ----------------------------------------------------------------- claims

\* the key of the specification: (asset, direction, entry)
KeyOf(signal) == <<signal.asset, signal.direction, signal.entry>>

\* C1: at most one signal per key (asset, direction, entry) is ever
\* enqueued: the first signal checked with a key is admitted and its key
\* recorded, and every later one with that key is rejected, whatever its
\* take-profits, stop-loss or leverage and whatever became of the first.
C1_OneSignalPerKey ==
    /\ \A i, j \in 1..Len(enqueued) :
          KeyOf(enqueued[i]) = KeyOf(enqueued[j]) => i = j
    /\ \A i \in 1..Len(enqueued) : KeyOf(enqueued[i]) \in processed_signals
    /\ \A i \in 1..Len(decisions) :
          decisions[i].admitted <=>
              ~\E j \in 1..(i - 1) :
                  KeyOf(decisions[j].signal) = KeyOf(decisions[i].signal)

\* a repost with other targets was rejected after the consumer was done with
\* the first signal of that key
C1_Witness ==
    \E i, j \in 1..Len(decisions) :
       /\ i < j
       /\ KeyOf(decisions[i].signal) = KeyOf(decisions[j].signal)
       /\ decisions[i].signal.take_profits # decisions[j].signal.take_profits
       /\ ~decisions[j].admitted
       /\ \E k \in 1..Len(finished) : finished[k].signal = decisions[i].signal

\* C2: with several handlers running at once on signals of one key, the
\* check-and-insert is indivisible: no handler checks between another's
\* check and insert, so exactly one of them finds the key absent and
\* goes on to enqueue.
C2_CheckAndInsertIndivisible ==
    /\ Cardinality({h \in Handlers : hpc[h] \in {"check", "add"}}) <= 1
    /\ \A i, j \in 1..Len(decisions) :
          /\ decisions[i].admitted /\ decisions[j].admitted
          /\ KeyOf(decisions[i].signal) = KeyOf(decisions[j].signal)
          => i = j
    /\ \A h1, h2 \in Handlers :
          /\ h1 # h2
          /\ hpc[h1] \in {"add", "put"} /\ hpc[h2] \in {"add", "put"}
          => KeyOf(hsig[h1][1]) # KeyOf(hsig[h2][1])

\* one handler is between its check and its insert while another, carrying
\* the same key, waits for the lock
C2_Witness ==
    \E h1, h2 \in Handlers :
       /\ hpc[h1] = "add" /\ hpc[h2] = "lock"
       /\ KeyOf(hsig[h1][1]) = KeyOf(hsig[h2][1])

RECURSIVE SumQty(_)
SumQty(orders) ==
    IF orders = <<>> THEN 0 ELSE Head(orders).qty + SumQty(Tail(orders))

\* C3: the quantities split_tp_orders returns sum to exactly the total
\* quantity, for every total, every non-empty price list and every contract
\* size.
C3_SplitSumsToTotal ==
    sz.orders # None => SumQty(sz.orders[1]) = sz.total_qty

\* the budget in the units of the product below: balance * amount/100 *
\* leverage, scaled by 100 and by the decimal places of price and size
SzBudget ==
    sz.config.balance * sz.config.amount * sz.leverage
        * Pow10(sz.entry_price.d + sz.contract_size.d)

\* the cost of q contracts, q * contract_size * entry_price, in those units
SzCost(q) == q * sz.contract_size.m * sz.entry_price.m * 100

Tradeable(signal) ==
    IsTradeable(NormalizeSymbol(Replace(signal.asset, "/", <<>>)))

\* the exchange requests made for the id-th dequeued signal, in order
RECURSIVE CallsOf(_, _)
CallsOf(calls, id) ==
    IF calls = <<>> THEN <<>>
    ELSE (IF Head(calls).id = id THEN <<Head(calls)>> ELSE <<>>)
             \o CallsOf(Tail(calls), id)

AllCallsSucceeded(id) ==
    \A k \in 1..Len(exchange_calls) :
       exchange_calls[k].id = id =>
           exchange_calls[k].result \in {"ok", "not_modified"}

Failed(outcome) == outcome \in {"error", "escaped", "invalid_symbol"}

\* C5: a failure while processing one signal does not halt the pipeline:
\* every other queued signal is still dequeued and fully processed (its
\* entry order and its take-profit orders submitted).
C5_OthersFullyProcessed ==
    \A i, j \in 1..Len(finished) :
       /\ i # j
       /\ ~Tradeable(finished[j].signal) \/ Failed(finished[j].outcome)
       /\ Tradeable(finished[i].signal)
       /\ AllCallsSucceeded(finished[i].id)
       => /\ finished[i].outcome = "processed"
          /\ \E k \in 1..Len(exchange_calls) :
                exchange_calls[k].id = finished[i].id
                    /\ exchange_calls[k].op = "MARKET"

\* C6: the queue is FIFO: signals are dequeued in exactly the order their
\* puts completed, none lost, none twice.
C6_Fifo == enqueued = dequeued \o signal_queue

\* two signals were dequeued while a third was still queued
C6_Witness == Len(dequeued) >= 2 /\ signal_queue # <<>>

\* C7: at most one signal is in flight: a signal is dequeued only after
\* open_position_with_signal is through with the one before it, and the
\* exchange requests of two signals never interleave.
C7_OneInFlight ==
    /\ Cardinality({t \in ProcessorTasks :
                       pc[t] \in {"open", "leverage", "market", "tp"}}) <= 1
    /\ Len(dequeued) - Len(finished) <= 1
    /\ \A k, l \in 1..Len(exchange_calls) :
          k < l => exchange_calls[k].id <= exchange_calls[l].id

\* a signal is in flight while the next one waits in the queue
C7_Witness ==
    \E t \in ProcessorTasks : pc[t] = "open" /\ signal_queue # <<>>

\* C8: for a tradeable signal whose exchange calls all succeed,
\* open_position_with_signal submits exactly one market entry order carrying
\* the stop-loss and then one closing-side limit order per take-profit
\* price, in that order; and no take-profit order without a successful
\* entry order.
C8_EntryThenTakeProfits ==
    /\ \A i \in 1..Len(finished) :
          Tradeable(finished[i].signal) /\ AllCallsSucceeded(finished[i].id)
          => LET signal == finished[i].signal
                 calls == CallsOf(exchange_calls, finished[i].id)
                 n == Len(signal.take_profits)
             IN  /\ Len(calls) = n + 2
                 /\ calls[1].op = "set_leverage"
                 /\ calls[2].op = "MARKET"
                 /\ calls[2].price = Some(signal.stop_loss)
                 /\ \A k \in 1..n :
                       /\ calls[k + 2].op = "LIMIT"
                       /\ calls[k + 2].price = Some(signal.take_profits[k])
                       /\ calls[k + 2].side =
                              (IF signal.direction = "Long" THEN "SELL" ELSE "BUY")
                       /\ calls[k + 2].position_side = calls[2].position_side
    /\ \A l \in 1..Len(exchange_calls) :
          exchange_calls[l].op = "LIMIT" =>
              \E k \in 1..(l - 1) :
                 /\ exchange_calls[k].id = exchange_calls[l].id
                 /\ exchange_calls[k].op = "MARKET"
                 /\ exchange_calls[k].result = "ok"

\* C9: a signal whose instrument is not in the symbol cache is abandoned,
\* and it alone: no leverage request and no order goes out for it, no
\* exception leaves open_position_with_signal, and the consumer goes on.
C9_UntradeableAbandoned ==
    \A i \in 1..Len(finished) :
       ~Tradeable(finished[i].signal) =>
           /\ finished[i].outcome # "escaped"
           /\ finished[i].outcome # "processed"
           /\ CallsOf(exchange_calls, finished[i].id) = <<>>

\* an untradeable signal was abandoned and the consumer took the next one
C9_Witness ==
    \E i \in 1..Len(finished) :
       /\ ~Tradeable(finished[i].signal)
       /\ Len(dequeued) > finished[i].id

\* C10: setting leverage is idempotent: a tradeable signal whose leverage
\* the exchange already has (it answers "leverage not modified") is carried
\* on to sizing and order submission, and a signal whose leverage request
\* was rejected for another reason gets no order.
C10_LeverageAlreadySetGoesOn ==
    /\ \A i \in 1..Len(finished) :
          LET signal == finished[i].signal
              symbol == NormalizeSymbol(Replace(signal.asset, "/", <<>>))
          IN  /\ Tradeable(signal)
              /\ xt_leverage[symbol] = signal.leverage
              /\ AllCallsSucceeded(finished[i].id)
              => \E k \in 1..Len(exchange_calls) :
                    /\ exchange_calls[k].id = finished[i].id
                    /\ exchange_calls[k].op = "MARKET"
    /\ \A k, l \in 1..Len(exchange_calls) :
          /\ exchange_calls[k].op = "set_leverage"
          /\ exchange_calls[k].result \notin {"ok", "not_modified"}
          /\ exchange_calls[l].id = exchange_calls[k].id
          => exchange_calls[l].op = "set_leverage"

\* the take-profit sends made so far, in order
OdLimitCalls == SelectSeq(od.calls, LAMBDA c : c.op = "LIMIT")

\* C11: in place_reduce_limit_orders a failed take-profit order (error
\* answer or raised exception) does not keep the remaining ones from being
\* attempted: the call returns, every order was sent once, and the ids
\* returned are those of the orders that succeeded, in order.
C11_FailedTpDoesNotStopTheRest ==
    od.on /\ od.pc \in {"tp_returned", "tp_raised"} =>
        /\ od.pc = "tp_returned"
        /\ Len(OdLimitCalls) = Len(od.orders)
        /\ \A k \in 1..Len(OdLimitCalls) : OdLimitCalls[k].k = k
        /\ od.order_ids =
              SelectSeq([k \in 1..Len(od.orders) |-> k],
                        LAMBDA k : OdLimitCalls[k].result = "ok")

\* C12: no retry and no requeue: every dequeued signal is handed to
\* open_position_with_signal exactly once, each exchange step is attempted
\* at most once per signal, and a signal whose processing failed is never
\* put back on the queue.
C12_NoRetryNoRequeue ==
    /\ \A i, j \in 1..Len(finished) : finished[i].id = finished[j].id => i = j
    /\ \A i \in 1..Len(finished) :
          /\ finished[i].id \in 1..Len(dequeued)
          /\ dequeued[finished[i].id] = finished[i].signal
    /\ Len(dequeued) - Len(finished) \in {0, 1}
    /\ \A k, l \in 1..Len(exchange_calls) :
          /\ exchange_calls[k].id = exchange_calls[l].id
          /\ exchange_calls[k].op = exchange_calls[l].op
          /\ exchange_calls[k].price = exchange_calls[l].price
          => k = l
    /\ \A i \in 1..Len(finished) :
          LET ever == dequeued \o signal_queue
          IN  Cardinality({k \in 1..Len(ever) : ever[k] = finished[i].signal}) = 1

\* a tradeable signal failed, the consumer went through the rest of the
\* queue and waits on the empty queue
C12_Witness ==
    /\ \E i \in 1..Len(finished) :
          finished[i].outcome = "error" /\ Tradeable(finished[i].signal)
    /\ Len(finished) >= 2 /\ Len(finished) = Len(dequeued)
    /\ signal_queue = <<>>
    /\ \A t \in ProcessorTasks : pc[t] = "get"

\* C13: cancelled while it is blocked in dequeue on an empty queue, the
\* consumer is unblocked with the cancellation, not with a value, and its
\* loop exits instead of hanging.
C13_CancelUnblocksDequeue ==
    /\ \A t \in ProcessorTasks :
          (app.cancelled /\ pc[t] = "get" /\ signal_queue = <<>>)
              ~> (pc[t] = "exited")
    /\ [][app.cancelled => dequeued' = dequeued]_vars

\* the consumer left its loop with nothing in the queue
C13_Witness ==
    \E t \in ProcessorTasks :
       pc[t] = "exited" /\ signal_queue = <<>> /\ app.cancelled

C15_NoMessageAcceptedAfterStop ==
    [][\A h \in Handlers :
          hlate[h] /\ hpc[h] # "idle" /\ hpc'[h] # hpc[h]
          => /\ processed_signals' = processed_signals
             /\ signal_queue' = signal_queue]_vars

\* C16: the consumer loop ends only on cancellation: no exception raised
\* by dequeueing or by processing a signal makes process_signals_queue
\* return.
C16_ExitsOnlyWhenCancelled ==
    /\ \A t \in ProcessorTasks : pc[t] = "exited" => app.cancelled
    /\ \A i \in 1..Len(finished) :
          Failed(finished[i].outcome) /\ ~app.cancelled
          => \A t \in ProcessorTasks : pc[t] # "exited"

\* signals failed, the loop went on, and it ended when it was cancelled
C16_Witness ==
    /\ \E i, j \in 1..Len(finished) :
          i < j /\ finished[i].outcome = "error"
    /\ \E t \in ProcessorTasks : pc[t] = "exited"

\* the six fields of a signal hold values: a non-empty asset, a direction,
\* a leverage and prices other than zero, and one take-profit or more
Populated(signal) ==
    /\ signal.asset # <<>>
    /\ signal.direction \in {"Long", "Short"}
    /\ signal.leverage # 0
    /\ signal.entry.m # 0
    /\ signal.take_profits # <<>>
    /\ signal.stop_loss.m # 0

\* C17: every signal that is in the queue at any time has all six fields
\* populated and a non-empty take-profit list: parse returns a fully
\* populated Signal or None, and the handler enqueues nothing for None.
C17_QueuedSignalsPopulated ==
    /\ \A i \in 1..Len(signal_queue) : Populated(signal_queue[i])
    /\ \A i \in 1..Len(enqueued) : Populated(enqueued[i])
    /\ \A h \in Handlers : hsig[h] # None => Populated(hsig[h][1])
    /\ \A text \in Messages :
          Handled[text].signal # None => Populated(Handled[text].signal[1])

\* a signal is in the queue, and another message was delivered and dropped
\* before the dedup check
C17_Witness ==
    /\ Len(signal_queue) = 1 /\ Len(decisions) = 1
    /\ delivered = 2
    /\ \A h \in Handlers : hpc[h] = "idle"

\* the two spellings of one letter
SameLetter(a, b) ==
    \/ a = b
    \/ \E i \in DOMAIN UpperAlphabet :
          {a, b} = {UpperAlphabet[i], LowerAlphabet[i]}

\* the marker stands somewhere in the text, in whatever case
HasMarker(text, marker) ==
    \E i \in 1..(Len(text) - Len(marker) + 1) :
       \A k \in 1..Len(marker) : SameLetter(text[i + k - 1], marker[k])

\* C18: is_signal returns true exactly when the text contains all four
\* markers as case-insensitive substrings, in any order; false when one is
\* missing and for empty or missing text.
C18_IsSignalIffAllMarkers ==
    px.is_signal # None =>
        (px.is_signal[1] <=>
            /\ px.text # None
            /\ HasMarker(px.text[1], KwLeverage)
            /\ HasMarker(px.text[1], KwEntryTargets)
            /\ HasMarker(px.text[1], KwTakeProfitTargets)
            /\ HasMarker(px.text[1], KwStopTargets))

\* a text was accepted whose markers are in another case and in the other
\* order
C18_Witness ==
    /\ px.is_signal = Some(TRUE)
    /\ px.parts[6] = 2
    /\ ~IsSubstring(KwLeverage, px.text[1])

\* the text was put together from parts each of which the parser can read,
\* in the order that has the stop marker after the take-profit section
PxWellFormed ==
    /\ px.parts # <<>>
    /\ px.parts[1] \in {1, 2, 3, 8}
    /\ px.parts[2] \in {1, 2, 3}
    /\ px.parts[3] \in {1, 2, 3}
    /\ px.parts[4] \in {1, 2}
    /\ px.parts[5] \in {1, 2, 5}
    /\ px.parts[6] = 1

\* C19: parse never raises, whatever the text (missing, empty, first line
\* without its tokens, sections missing, malformed numbers): it returns
\* None for every malformed input.
C19_ParseNeverRaises ==
    px.outcome # None =>
        /\ px.outcome[1].raised = ""
        /\ ~PxWellFormed => px.outcome[1].signal = None

\* parse was handed no text at all and returned None
C19_Witness ==
    /\ px.on /\ px.text = None
    /\ px.outcome = Some([raised |-> "", signal |-> None])

\* C20: the final gate of the parser takes zero for missing: a message
\* whose leverage is 0, whose entry is 0.0 or whose stop-loss is 0 parses
\* to None although every section and marker is there.
C20_ZeroRejected ==
    /\ px.outcome # None
    /\ PxWellFormed
    /\ px.parts[2] = 3 \/ px.parts[3] = 3 \/ px.parts[5] = 2
    => px.outcome[1].signal = None

\* a message that is complete but for its leverage of 0 parsed to None
C20_Witness ==
    /\ px.parts = <<1, 3, 1, 1, 1, 1>>
    /\ px.outcome # None
    /\ px.outcome[1].signal = None
    /\ px.is_signal = Some(TRUE)

\* where the first line of the text handed to the parser ends
PxFirstLineEnd ==
    LET feeds == {i \in 1..Len(px.text[1]) : px.text[1][i] = NL}
    IN  IF feeds = {} THEN Len(px.text[1]) ELSE Min(feeds) - 1

\* the word stands in the first line, in whatever case
PxFirstLineHasWord(word) ==
    \E i \in 1..(PxFirstLineEnd - Len(word) + 1) :
       \A k \in 1..Len(word) : SameLetter(px.text[1][i + k - 1], word[k])

\* the glyph stands in the first line
PxFirstLineHasGlyph(glyph) ==
    \E i \in 1..PxFirstLineEnd : px.text[1][i] = glyph

PxShortMarked ==
    \/ PxFirstLineHasWord(<<"s", "h", "o", "r", "t">>)
    \/ PxFirstLineHasGlyph(RedSquare)

PxLongMarked ==
    \/ PxFirstLineHasWord(<<"l", "o", "n", "g">>)
    \/ PxFirstLineHasGlyph(GreenSquare)

\* C21: the direction comes from the first line alone and short is tested
\* before long: a first line with a short marker gives Short whether or not
\* it has a long marker too, markers on later lines count for nothing, and
\* a first line with neither marker makes the parse fail.
C21_ShortBeforeLongFirstLineOnly ==
    px.outcome # None /\ px.text # None =>
        LET signal == px.outcome[1].signal
        IN  /\ ~PxShortMarked /\ ~PxLongMarked => signal = None
            /\ signal # None =>
                  signal[1].direction =
                      IF PxShortMarked THEN "Short" ELSE "Long"

\* "B/USDT Long or Short", with both markers in its first line, parsed to
\* a Short signal
C21_Witness ==
    /\ px.parts # <<>> /\ px.parts[1] = 3
    /\ px.outcome # None /\ px.outcome[1].signal # None
    /\ PxShortMarked /\ PxLongMarked
    /\ px.outcome[1].signal[1].direction = "Short"

\* the numbered entries that stand in each variant of the take-profit
\* section: 2100 and 2200; 110.5; none; none
PxTargetsWritten ==
    <<<<[m |-> 21000, d |-> 1], [m |-> 22000, d |-> 1]>>,
      <<[m |-> 1105, d |-> 1]>>,
      <<>>,
      <<>>>>

\* C22: take-profits are read from the text between the take-profit marker
\* and the stop marker that follows it, and from nowhere else: when the
\* section is missing (no marker, or no stop marker after it) or holds no
\* numbered entry, parse returns None whatever the other fields are, also
\* when a numbered entry stands after the stop marker; and a parsed signal
\* carries exactly the entries of the section.
C22_TakeProfitsFromSectionOnly ==
    px.outcome # None /\ px.parts # <<>> =>
        LET signal == px.outcome[1].signal
        IN  /\ px.parts[4] \in {3, 4} \/ px.parts[6] = 2 => signal = None
            /\ signal # None =>
                  signal[1].take_profits = PxTargetsWritten[px.parts[4]]

\* asset, direction, leverage, entry and stop-loss are all there, the
\* section says "none" and "3) 2300" stands after the stop marker: parse
\* returned None
C22_Witness ==
    /\ px.parts = <<1, 1, 1, 3, 5, 1>>
    /\ px.outcome # None
    /\ px.outcome[1].signal = None

\* what is written in each variant of the head, the leverage line, the
\* entry line and the stop line that the parser can read
PxAssetWritten ==
    [f \in {1, 2, 3, 8} |->
        IF f \in {1, 8} THEN <<"E", "T", "H">> \o SlashUSDT
        ELSE <<"B">> \o SlashUSDT]

PxLeverageWritten == <<10, 5>>

PxEntryWritten == <<[m |-> 20000, d |-> 1], [m |-> 1000, d |-> 1]>>

PxStopWritten == [s \in {1, 5} |-> [m |-> 19000, d |-> 1]]

\* C23: parsing a well-formed message takes each field from its own
\* section and the take-profits in the order they are written.  The message
\* "[green] Long ETH/USDT", "Leverage: x (10X)", "Entry Targets: 2000.0",
\* "Take-Profit Targets: 1) 2100 2) 2200", "Stop Targets: 1900" gives
\* Signal(ETH/USDT, Long, 10, 2000.0, [2100, 2200], 1900).
C23_WellFormedMessageParses ==
    px.outcome # None /\ px.parts # <<>> =>
        LET signal == px.outcome[1].signal
        IN  /\ px.parts = <<1, 1, 1, 1, 1, 1>> =>
                  signal = Some([asset |-> <<"E", "T", "H", "/", "U", "S",
                                             "D", "T">>,
                                 direction |-> "Long",
                                 leverage |-> 10,
                                 entry |-> [m |-> 20000, d |-> 1],
                                 take_profits |-> <<[m |-> 21000, d |-> 1],
                                                    [m |-> 22000, d |-> 1]>>,
                                 stop_loss |-> [m |-> 19000, d |-> 1]])
            /\ signal # None =>
                  /\ signal[1].asset = PxAssetWritten[px.parts[1]]
                  /\ signal[1].leverage = PxLeverageWritten[px.parts[2]]
                  /\ signal[1].entry = PxEntryWritten[px.parts[3]]
                  /\ signal[1].take_profits = PxTargetsWritten[px.parts[4]]
                  /\ signal[1].stop_loss = PxStopWritten[px.parts[5]]

\* the ETH/USDT message was parsed to a signal with two take-profits
C23_Witness ==
    /\ px.parts = <<1, 1, 1, 1, 1, 1>>
    /\ px.outcome # None /\ px.outcome[1].signal # None
    /\ Len(px.outcome[1].signal[1].take_profits) = 2
    /\ px.is_signal = Some(TRUE)

\* rawQty = balance * (percent/100) * leverage / entry_price as the rational
\* num/den
SzRawQty ==
    [num |-> sz.config.balance * sz.config.amount * sz.leverage
             * Pow10(sz.entry_price.d),
     den |-> 100 * sz.entry_price.m]

\* balance=1000, riskPercent=10, leverage=5, entry=100, step=0.001
SzExample ==
    /\ sz.config = [balance |-> 1000, amount |-> 10]
    /\ sz.leverage = 5
    /\ sz.entry_price = Float1(1000)
    /\ sz.contract_size = [m |-> 1, d |-> 3]

\* C24: the quantity returned is floor_to_step of
\* rawQty = (balance * percent/100 * leverage) / entry_price, the largest
\* multiple of the step not above rawQty; the example gives 5.0.
C24_FloorToStepOfRawQty ==
    sz.position_size # None =>
        LET q == sz.position_size[1]
            step == sz.contract_size
        IN  /\ (q * Pow10(step.d)) % step.m = 0
            /\ q * SzRawQty.den <= SzRawQty.num
            /\ (SzRawQty.num - q * SzRawQty.den) * Pow10(step.d)
                   < step.m * SzRawQty.den
            /\ SzExample => q = 5

\* perLevel = floor_to_step(total / count, step), the largest multiple of
\* the step not above total / count, in units of 10^-d of the step's d
\* decimal places
SzPerLevel ==
    LET step == sz.contract_size
        count == Len(sz.tp_prices)
    IN  ((sz.total_qty * Pow10(step.d)) \div (count * step.m)) * step.m

\* C25: split_tp_orders gives every price but the first exactly perLevel =
\* floor_to_step(total / count, step) and the first price
\* total - perLevel * (count - 1), the whole rounding remainder; total 10
\* over three prices with step 1 gives [4, 3, 3].
C25_FirstSlotAbsorbsRemainder ==
    sz.orders # None =>
        LET orders == sz.orders[1]
            scale == Pow10(sz.contract_size.d)
            count == Len(sz.tp_prices)
        IN  /\ \A i \in 2..Len(orders) : orders[i].qty * scale = SzPerLevel
            /\ orders[1].qty * scale
                   = sz.total_qty * scale - SzPerLevel * (count - 1)
            /\ sz.total_qty = 10 /\ count = 3 /\ sz.contract_size = Float1(10)
                   => <<orders[1].qty, orders[2].qty, orders[3].qty>>
                          = <<4, 3, 3>>

\* C26: with a single take-profit price split_tp_orders assigns the whole
\* total quantity to that one level, for every total quantity and every
\* contract size.
C26_SinglePriceTakesAll ==
    sz.orders # None /\ Len(sz.tp_prices) = 1 =>
        sz.orders[1] = <<[price |-> sz.tp_prices[1], qty |-> sz.total_qty]>>

\* a total of several contracts was split over one price, the contract
\* size having two decimal places
C26_Witness ==
    /\ sz.orders # None
    /\ Len(sz.tp_prices) = 1
    /\ sz.total_qty = 7
    /\ sz.contract_size = [m |-> 1, d |-> 2]
    /\ sz.orders[1][1].qty = 7

\* C27: split_tp_orders keeps the order and the length of its input: the
\* i-th order carries the i-th price, no price is sorted away or dropped,
\* and the slot whose quantity may differ from the others, the one that
\* takes the remainder, is the first.
C27_OrderAndLengthPreserved ==
    sz.orders # None =>
        LET orders == sz.orders[1]
        IN  /\ Len(orders) = Len(sz.tp_prices)
            /\ \A i \in 1..Len(orders) : orders[i].price = sz.tp_prices[i]
            /\ \A i \in 2..Len(orders) :
                  /\ orders[i].qty = orders[2].qty
                  /\ orders[i].qty <= orders[1].qty

\* a list in no order was split over three orders that carry its prices
\* as they came
C27_Witness ==
    /\ sz.orders # None
    /\ sz.tp_prices = SzPricesMixed(3)
    /\ sz.orders[1][1].price.m < sz.orders[1][2].price.m
    /\ sz.orders[1][2].price.m > sz.orders[1][3].price.m
    /\ sz.orders[1][3].qty > 0

\* the messages the validator or the parser turns down: no marker but one;
\* no direction; leverage 0; an empty take-profit section; no text
DroppedMessages == {TextNoise, TextMalformed, TextZero, TextNoTargets, None}

\* C28: a message that fails validation or fails to parse is dropped
\* without effect: the handler leaves the seen-set and the queue as they
\* are, takes no lock, ends at once, and no error leaves it.
C28_DroppedMessageNoEffect ==
    [][\A h \in Handlers, text \in DroppedMessages :
          HandleNewMessage(h, text) =>
              /\ processed_signals' = processed_signals
              /\ signal_queue' = signal_queue
              /\ decisions' = decisions /\ enqueued' = enqueued
              /\ lock' = lock
              /\ hpc'[h] = "idle" /\ hsig'[h] = None
              /\ Handled[text].raised = ""]_vars

\* after a signal was queued two more messages came and went: every
\* handler is idle and the seen-set and the queue hold the one signal
C28_Witness ==
    /\ delivered = 3
    /\ Len(decisions) = 1 /\ Len(enqueued) = 1
    /\ Cardinality(processed_signals) = 1
    /\ Len(signal_queue) = 1
    /\ \A h \in Handlers : hpc[h] = "idle"

\* a float in (0, 100]
CfPercent(x) ==
    x.kind = "finite" /\ ~x.neg /\ x.m > 0 /\ x.m <= 100 * Pow10(x.d)

\* a float above 0: a positive number or +inf
CfPositive(x) ==
    \/ x.kind = "finite" /\ ~x.neg /\ x.m > 0
    \/ x.kind = "inf" /\ ~x.neg

\* margin = balance * (amount / 100) <= balance as floats compare: never
\* with a nan on either side
CfMarginWithinBalance(config) ==
    /\ config.balance.kind # "nan"
    /\ config.amount.kind # "nan"
    /\ CfPositive(config.balance)
    /\ config.amount.kind = "finite"
    /\ config.amount.neg \/ config.amount.m <= 100 * Pow10(config.amount.d)

\* C29: the trading configuration admits only a risk percent in (0, 100]
\* and a positive balance: from_env fails with an error and produces no
\* configuration when amount <= 0, amount > 100 or balance <= 0, so every
\* configuration that reaches the sizer has margin <= balance.
C29_ConfigWithinRange ==
    cf.result # None =>
        LET result == cf.result[1]
        IN  /\ result.raised # "" => result.config = None
            /\ result.config # None =>
                  /\ CfPercent(result.config[1].amount)
                  /\ CfPositive(result.config[1].balance)
                  /\ CfMarginWithinBalance(result.config[1])

\* the i-th signal put on the queue was handed to
\* open_position_with_signal, which has returned
HandedOver(i) ==
    \E k \in 1..Len(finished) :
       finished[k].id = i /\ finished[k].signal = enqueued[i]

\* C30: absent cancellation and provided every exchange call returns,
\* every signal that was enqueued is eventually dequeued exactly once and
\* handed to open_position_with_signal; the consumer never processes a
\* signal that was not enqueued.
C30_EnqueuedEventuallyProcessedOnce ==
    /\ [](dequeued \o signal_queue = enqueued)
    /\ [](\A k \in 1..Len(finished) :
            /\ finished[k].id \in 1..Len(dequeued)
            /\ finished[k].signal = dequeued[finished[k].id]
            /\ \A l \in 1..Len(finished) :
                  finished[l].id = finished[k].id => l = k)
    /\ \A i \in 1..MaxMessages :
          (Len(enqueued) >= i) ~> (app.cancelled \/ HandedOver(i))

\* two signals went through the queue one after the other, nothing was
\* cancelled, and both came back from open_position_with_signal
C30_Witness ==
    /\ Len(enqueued) = 2 /\ enqueued[1] # enqueued[2]
    /\ HandedOver(1) /\ HandedOver(2)
    /\ signal_queue = <<>>
    /\ ~app.cancelled

\* the canonical form of a pair: 'btc_usdt'
NsCanonical(pair) == Lower(pair.base) \o <<"_">> \o Lower(pair.quote)

\* C31: normalize_symbol maps every spelling of the same pair to one
\* canonical form: the slash form 'BTC/USDT', the dash form 'BTC-USDT' and
\* the concatenated form 'BTCUSDT' all normalize to 'btc_usdt', and
\* normalizing an already normalized symbol returns it unchanged.
C31_SpellingsNormalizeToOneForm ==
    ns.on /\ ns.pair.quote = USDT =>
        \A spelling \in {"slash", "dash", "concatenated"} :
           /\ ns.out[spelling] # None
                  => ns.out[spelling][1] = NsCanonical(ns.pair)
           /\ ns.again[spelling] # None
                  => ns.again[spelling] = ns.out[spelling]

\* C32: the seen-set only grows and always covers the queue: no operation
\* removes a key from the seen-set, and in every reachable state the key of
\* every signal that is or ever was in the queue is in the seen-set (a key
\* is recorded before its signal is enqueued).
C32_SeenSetGrowsAndCoversQueue ==
    /\ [][processed_signals \subseteq processed_signals']_vars
    /\ [](\A i \in 1..Len(enqueued) :
            SignalKey(enqueued[i]) \in processed_signals)
    /\ [](\A i \in 1..Len(signal_queue) :
            SignalKey(signal_queue[i]) \in processed_signals)
    /\ [](\A h \in Handlers :
            hpc[h] = "put" => SignalKey(hsig[h][1]) \in processed_signals)

\* two signals with different keys went into the queue, one has left it
\* again, and both keys are in the seen-set
C32_Witness ==
    /\ Len(enqueued) = 2 /\ Len(signal_queue) = 1 /\ Len(dequeued) = 1
    /\ Cardinality(processed_signals) = 2
    /\ SignalKey(enqueued[1]) # SignalKey(enqueued[2])

\* C33: once ChannelParser.start() has been invoked, the ready event is
\* eventually set, so BotApplication's wait_ready() eventually returns;
\* this holds for every channel configuration, including an empty list of
\* active channels.
C33_ReadyEventuallySet ==
    (bs.on /\ bs.parser # "none") ~> bs.ready_event

C35_TakeProfitOrdersPositive ==
    sz.limits # None /\ sz.total_qty > 0 =>
        \A k \in 1..Len(sz.limits[1]) : sz.limits[1][k].amount > 0

\* C36: whenever BotApplication.start() finishes after the transport
\* connection was established, the transport has been disconnected: this
\* holds on every exit path, including a failure during startup
\* (configuration, symbol cache load) that happens before the running flag
\* is set.
C36_DisconnectedOnEveryExit ==
    bs.on /\ bs.main = "returned" /\ bs.was_connected
        => ~bs.is_connected /\ bs.disconnects >= 1

\* the stopped state: both tasks have finished, the running flag is
\* false, the parser's stop event and the shutdown event are set
BsStopped ==
    /\ bs.parser = "done" /\ bs.processor = "exited"
    /\ ~bs.running /\ ~bs.parser_running
    /\ bs.stop_event /\ bs.shutdown_event

\* C37: after the owning process cancels the running application, it
\* eventually reaches a stopped state: the parser task and the consumer
\* task have both finished, the running flag is false, the parser's stop
\* event and the application's shutdown event are set, and stop() performs
\* its shutdown actions at most once however often it is called.
C37_CancelledApplicationStopsOnce ==
    /\ (bs.on /\ bs.cancelled = "gather") ~> BsStopped
    /\ [](bs.on /\ bs.cancelled = "gather" /\ BsStopped => []BsStopped)
    /\ [](bs.stops <= 1 /\ bs.disconnects <= 1)

\* the application was cancelled in its gather and has stopped; stop() was
\* called again after that, and its actions ran once
C37_Witness ==
    /\ bs.on /\ bs.cancelled = "gather" /\ BsStopped
    /\ bs.main = "returned"
    /\ bs.stop_calls = 1 + MaxStopCalls
    /\ bs.stops = 1 /\ bs.disconnects = 1

====
